---- MODULE Spec2Model ----
(***************************************************************************)
(* Passthrough file system (src/passthrough/sync_io.rs): the Object Table  *)
(* (inode_map) with its lookup refcounts, the Handle Table (handle_map),   *)
(* the open/create/release handlers and the raw directory enumeration of   *)
(* do_readdir.  Every FileSystem handler is one action; the host kernel    *)
(* (directory stream, syscall failures) and the caller's sink are the      *)
(* environment and are chosen nondeterministically.                        *)
(***************************************************************************)
EXTENDS Integers, Sequences, FiniteSets, TLC

(***************************************************************************)
(* Bounds of the model.                                                    *)
(***************************************************************************)
MaxInode == 4      \* ObjectIds 1..MaxInode can be allocated
MaxRef == 2        \* a lookup refcount is not driven above MaxRef
MaxHandle == 2     \* HandleIds 1..MaxHandle can be allocated
MaxFiles == 3      \* host files 1..MaxFiles can exist
MaxCount == 2      \* forget counts are drawn from 1..MaxCount
MaxDebt == 1       \* releases may exceed resolves by at most MaxDebt
MaxWorker == 2     \* worker threads 1..MaxWorker serve requests
OffBits == 4       \* width of off64_t in the model: the sign bit is 2^(OffBits-1)

(***************************************************************************)
(* Program constants.                                                      *)
(***************************************************************************)
ROOT_ID == 1
\* size_of::<LinuxDirent64>(): d_ino 8 + d_off 8 + d_reclen 2 + d_ty 1, packed
DirentHeader == 19

RootFile == ROOT_ID

NUL == "NUL"
NameA == <<"a">>
NameB == <<"b">>
NameC == <<"c">>
DotName == <<".">>
DotDotName == <<".", ".">>
EntryNames == {NameA, NameB, NameC}
DotA == <<".", "a">>
DotDotA == <<".", ".", "a">>
NameOrder == <<DotA, NameA, DotDotA, NameB, NameC>>
CURRENT_DIR_CSTR == <<".", NUL>>
PARENT_DIR_CSTR == <<".", ".", NUL>>

VARIABLES
    inode_map,     \* Object Table: ObjectId -> [file, mode, refcount]
    next_inode,    \* next ObjectId to hand out
    handle_map,    \* Handle Table: HandleId -> [inode, file, flags]
    next_handle,   \* PassthroughFs::next_handle
    dirents,       \* host root directory: name -> host file
    ftype,         \* host files: ftype[f] is the type of host file f
    sess,          \* session flags (no_open, no_opendir, killpriv_v2, ...)
    balance,       \* history: resolves minus released counts, per ObjectId
    issued,        \* history: HandleIds returned so far
    last,          \* the last handler call: its name, arguments and result
    listing,       \* a caller listing one directory by chaining cookies
    workers,       \* worker threads: the call each one is in, its position
                   \* in the handler and its locals
    fdstate,       \* per HandleId: the read position of its descriptor, the
                   \* worker that holds the Mutex of HandleData::file,
                   \* whether a File that borrowed the descriptor was dropped,
                   \* whether the last Arc of its HandleData was dropped, the
                   \* flags of a HandleData that left the table while a call
                   \* still held it, and the flags F_SETFL applied last
    ambient,       \* the serving thread's effective uid, gid and its
                   \* capability set
    fattr          \* host files: fattr[f] is the set-id bits, owner, size
                   \* and modification time of host file f

vars == <<inode_map, next_inode, handle_map, next_handle, dirents, ftype,
          sess, balance, issued, last, listing, workers, fdstate, ambient, fattr>>

(***************************************************************************)
(* Byte-level helpers of the directory record format.                      *)
(***************************************************************************)
RECURSIVE Repeat(_, _)
Repeat(c, n) == IF n <= 0 THEN <<>> ELSE <<c>> \o Repeat(c, n - 1)

\* the kernel rounds a record up to 8-byte alignment
Align8(n) == ((n + 7) \div 8) * 8

\* d_reclen of the record the kernel writes for `name`
RecLen(name) == Align8(DirentHeader + Len(name) + 1)

\* the name bytes of a record: the name, its terminator and the padding
PadName(name) == name \o Repeat(NUL, RecLen(name) - DirentHeader - Len(name))

\* <[u8]>::starts_with
starts_with(s, p) == Len(p) <= Len(s) /\ SubSeq(s, 1, Len(p)) = p

\* bytes_to_cstr(..).to_bytes(): the bytes before the first NUL; no NUL is an error
HasNul(bytes) == \E i \in 1..Len(bytes) : bytes[i] = NUL
bytes_to_cstr(bytes) ==
    LET first == CHOOSE i \in 1..Len(bytes) :
                    bytes[i] = NUL /\ \A j \in 1..(i - 1) : bytes[j] # NUL
    IN  SubSeq(bytes, 1, first - 1)

(***************************************************************************)
(* The host kernel: directory streams, lseek64 and getdents64.             *)
(***************************************************************************)
\* the names of the root directory, in the order the kernel lists them
RECURSIVE ListedFrom(_, _)
ListedFrom(d, i) ==
    IF i > Len(NameOrder) THEN <<>>
    ELSE (IF NameOrder[i] \in DOMAIN d THEN <<NameOrder[i]>> ELSE <<>>)
         \o ListedFrom(d, i + 1)

\* the raw records of directory `file`; d_off of a record is the cookie of
\* the position after it
DirStream(d, ft, file) ==
    LET names == <<DotName, DotDotName>>
                 \o (IF file = RootFile THEN ListedFrom(d, 1) ELSE <<>>)
    IN  [k \in 1..Len(names) |->
            [d_ino    |-> IF names[k] \in DOMAIN d /\ file = RootFile
                          THEN d[names[k]]
                          ELSE IF names[k] = DotName THEN file ELSE RootFile,
             d_off    |-> k,
             d_reclen |-> RecLen(names[k]),
             d_ty     |-> IF names[k] \in DOMAIN d /\ file = RootFile
                          THEN ft[d[names[k]]] ELSE "dir",
             name     |-> PadName(names[k])]]

\* `offset as libc::off64_t`: a value with the sign bit set is negative
AsOff64(offset) ==
    IF offset >= 2 ^ (OffBits - 1) THEN offset - 2 ^ OffBits ELSE offset

\* lseek64(fd, off, SEEK_SET): the new position, or -1
lseek64(off) == IF off < 0 THEN -1 ELSE off

\* the records of `stream` after position `pos` that fit into `size` bytes
RECURSIVE Fitting(_, _, _)
Fitting(stream, pos, size) ==
    IF pos >= Len(stream) \/ stream[pos + 1].d_reclen > size THEN <<>>
    ELSE <<stream[pos + 1]>>
         \o Fitting(stream, pos + 1, size - stream[pos + 1].d_reclen)

\* getdents64(fd, buf, size): [res, buf]; res < 0 is a failure
getdents64(d, ft, file, pos, size) ==
    IF ft[file] # "dir" THEN [res |-> -1, errno |-> "ENOTDIR", buf |-> <<>>]
    ELSE LET stream == DirStream(d, ft, file)
             recs == Fitting(stream, pos, size)
         IN  IF pos < Len(stream) /\ recs = <<>>
             THEN [res |-> -1, errno |-> "EINVAL", buf |-> <<>>]
             ELSE [res |-> Len(recs), errno |-> "ok", buf |-> recs]

\* rem.len(): the bytes of the buffer from record i on
RECURSIVE RemLen(_, _)
RemLen(buf, i) ==
    IF i > Len(buf) THEN 0 ELSE buf[i].d_reclen + RemLen(buf, i + 1)

(***************************************************************************)
(* Object Table.  A table state `t` is [map, nxt, bal]: the map of         *)
(* ObjectRecords, the next ObjectId and the history of resolves minus      *)
(* released counts per ObjectId.                                           *)
(***************************************************************************)
Max(a, b) == IF a >= b THEN a ELSE b

\* the history of resolves minus released counts, kept for the ObjectIds in
\* DOMAIN bal (the empty function keeps no history)
Track(bal, i, delta) ==
    IF i \in DOMAIN bal THEN [bal EXCEPT ![i] = @ + delta] ELSE bal

\* map without its entry `k`
Remove(map, k) == [x \in DOMAIN map \ {k} |-> map[x]]

\* the name resolution of the host under directory `pfile`; 0 is no such entry
Resolve(d, ft, pfile, name) ==
    IF ft[pfile] # "dir" THEN 0
    ELSE IF name = DotName THEN pfile
    ELSE IF name = DotDotName THEN RootFile
    ELSE IF pfile = RootFile /\ name \in DOMAIN d THEN d[name]
    ELSE 0

\* is_safe_inode(mode): only regular files and directories may be opened
is_safe_inode(mode) == mode \in {"reg", "dir"}

\* do_lookup(parent, name): the resolve step.  `fail` is a failure of the
\* host while opening or stat-ing the entry.  Returns [err, inode, t].
do_lookup(t, d, ft, parent, name, fail) ==
    IF parent \notin DOMAIN t.map THEN [err |-> "NotFound", inode |-> 0, t |-> t]
    ELSE LET file == Resolve(d, ft, t.map[parent].file, name)
             known == {i \in DOMAIN t.map : t.map[i].file = file}
         IN  IF file = 0 THEN [err |-> "ENOENT", inode |-> 0, t |-> t]
             ELSE IF fail THEN [err |-> "EIO", inode |-> 0, t |-> t]
             ELSE IF known # {}
             THEN LET i == CHOOSE i \in known : TRUE
                  IN  [err |-> "ok", inode |-> i,
                       t |-> [t EXCEPT !.map[i].refcount = @ + 1,
                                       !.bal = Track(t.bal, i, 1)]]
             ELSE [err |-> "ok", inode |-> t.nxt,
                   t |-> [map |-> (t.nxt :> [file |-> file, mode |-> ft[file],
                                             refcount |-> 1]) @@ t.map,
                          nxt |-> t.nxt + 1,
                          bal |-> IF t.bal = <<>> THEN t.bal
                                  ELSE (t.nxt :> 1) @@ t.bal]]

\* forget_one(inodes, inode, count): subtract, clamp at 0, remove at 0
forget_one(t, inode, count) ==
    IF inode \notin DOMAIN t.map
    THEN [t EXCEPT !.bal = Track(t.bal, inode, 0 - count)]
    ELSE LET new_count == Max(t.map[inode].refcount - count, 0)
         IN  [t EXCEPT !.map = IF new_count = 0 THEN Remove(t.map, inode)
                                ELSE [t.map EXCEPT ![inode].refcount = new_count],
                       !.bal = Track(t.bal, inode, 0 - count)]

\* forget(inode, count), with the count it hands to forget_one dropped
forget_count_ignored(t, inode, count) == forget_one(t, inode, 1)

\* FileSystem::forget
forget(t, inode, count) == forget_one(t, inode, count)

\* FileSystem::batch_forget: the requests in order, under one table lock
RECURSIVE batch_forget(_, _)
batch_forget(t, requests) ==
    IF requests = <<>> THEN t
    ELSE batch_forget(forget_one(t, requests[1][1], requests[1][2]),
                      Tail(requests))

\* the table state of the current state
Table == [map |-> inode_map, nxt |-> next_inode, bal |-> balance]

\* a table state within the bounds of the model
Bounded(t) ==
    /\ t.nxt <= MaxInode + 1
    /\ \A i \in DOMAIN t.map : t.map[i].refcount <= MaxRef
    /\ \A i \in DOMAIN t.bal : t.bal[i] >= 0 - MaxDebt

SetTable(t) ==
    /\ inode_map' = t.map
    /\ next_inode' = t.nxt
    /\ balance' = t.bal

(***************************************************************************)
(* Handle Table and the open path.                                         *)
(***************************************************************************)
\* handle_map.get(handle, inode): the record, if it belongs to `inode`
HandleGet(hm, handle, inode) ==
    IF handle \in DOMAIN hm /\ hm[handle].inode = inode
    THEN [err |-> "ok", data |-> hm[handle]]
    ELSE [err |-> "EBADF", data |-> [inode |-> 0, file |-> 0, flags |-> {}]]

\* get_writeback_open_flags(flags)
get_writeback_open_flags(se, flags) ==
    IF se.writeback
    THEN (IF "O_WRONLY" \in flags
          THEN (flags \ {"O_WRONLY"}) \cup {"O_RDWR"} ELSE flags) \ {"O_APPEND"}
    ELSE flags

\* InodeData::open_file: the host opens the file; O_DIRECTORY needs a directory
open_file(ft, file, flags, fail) ==
    IF fail = "open" THEN "EACCES"
    ELSE IF "O_DIRECTORY" \in flags /\ ft[file] # "dir" THEN "ENOTDIR"
    ELSE "ok"

\* open_inode with the node-type gate removed
open_inode_ungated(se, map, ft, inode, flags, fail) ==
    IF inode \notin DOMAIN map THEN [err |-> "NotFound", file |-> 0, sys |-> <<>>]
    ELSE LET e == open_file(ft, map[inode].file,
                            get_writeback_open_flags(se, flags) \cup {"O_CLOEXEC"},
                            fail)
         IN  [err |-> e, file |-> IF e = "ok" THEN map[inode].file ELSE 0,
              sys |-> <<"open">>]

\* open_inode(inode, flags): [err, file, sys]
open_inode(se, map, ft, inode, flags, fail) ==
    IF inode \notin DOMAIN map THEN [err |-> "NotFound", file |-> 0, sys |-> <<>>]
    ELSE IF ~is_safe_inode(map[inode].mode)
    THEN [err |-> "EBADF", file |-> 0, sys |-> <<>>]
    ELSE LET wb_flags == get_writeback_open_flags(se, flags)
             new_flags == IF ~se.cfg.allow_direct_io
                          THEN wb_flags \ {"O_DIRECT"} ELSE wb_flags
             e == open_file(ft, map[inode].file, new_flags \cup {"O_CLOEXEC"}, fail)
         IN  [err |-> e, file |-> IF e = "ok" THEN map[inode].file ELSE 0,
              sys |-> <<"open">>]

\* next_handle.fetch_add(1) that does not advance the counter
fetch_add_stuck(n) == n

\* next_handle.fetch_add(1): the counter after the call
fetch_add(n) == n + 1

\* the reply options of an open that does not tell a directory from a file
OpenOptions_of_a_file(policy, flags) ==
    CASE policy \in {"never", "metadata"} -> {"DIRECT_IO"}
      [] policy = "always" -> {"KEEP_CACHE"}
      [] OTHER -> {}

\* the reply options of do_open
OpenOptions(policy, flags) ==
    CASE policy = "never" ->
            IF "O_DIRECTORY" \notin flags THEN {"DIRECT_IO"} ELSE {}
      [] policy = "metadata" ->
            IF "O_DIRECTORY" \notin flags THEN {"DIRECT_IO"}
            ELSE {"CACHE_DIR", "KEEP_CACHE"}
      [] policy = "always" ->
            {"KEEP_CACHE"}
            \cup (IF "O_DIRECTORY" \in flags THEN {"CACHE_DIR"} ELSE {})
      [] OTHER -> {}

\* the identity and the capabilities the server's threads run with
Server == [uid |-> "server", gid |-> "server", caps |-> {"CAP_FSETID"}]

\* set_creds(uid, gid): switch the thread's effective gid and uid to the
\* requester's; a failed switch leaves both as they were.  [err, amb]
set_creds(amb, fail) ==
    IF fail THEN [err |-> "EPERM", amb |-> amb]
    ELSE [err |-> "ok", amb |-> [amb EXCEPT !.uid = "requester",
                                            !.gid = "requester"]]

\* drop_cap_fsetid(): remove CAP_FSETID from the thread's effective set; a
\* failed drop leaves the set as it was.  [err, amb]
drop_cap_fsetid(amb, fail) ==
    IF fail THEN [err |-> "EPERM", amb |-> amb]
    ELSE [err |-> "ok", amb |-> [amb EXCEPT !.caps = @ \ {"CAP_FSETID"}]]

\* do_open that drops the capability whenever the request asks for it
do_open_drops_unnegotiated(se, map, ft, hm, nh, amb, inode, flags, fuse_flags, fail) ==
    LET kill == "KILL_SUIDGID" \in fuse_flags
        cap == IF kill THEN drop_cap_fsetid(amb, fail = "cap")
               ELSE [err |-> "ok", amb |-> amb]
        back == [cap.amb EXCEPT !.caps = amb.caps]
        o == open_inode(se, map, ft, inode, flags, fail)
        capsys == IF kill THEN <<"drop_cap_fsetid">> ELSE <<>>
        capran == IF kill THEN <<cap.amb>> ELSE <<>>
        none == [err |-> "ok", hm |-> hm, nh |-> nh, handle |-> 0, opts |-> {},
                 sys |-> <<>>, amb |-> amb, ran |-> <<>>]
    IN  IF cap.err # "ok"
        THEN [none EXCEPT !.err = cap.err, !.sys = capsys, !.amb = cap.amb,
                          !.ran = capran]
        ELSE IF o.err # "ok"
        THEN [none EXCEPT !.err = o.err, !.sys = capsys \o o.sys, !.amb = back,
                          !.ran = capran \o Repeat(cap.amb, Len(o.sys))]
        ELSE [err |-> "ok",
              hm |-> (nh :> [inode |-> inode, file |-> o.file, flags |-> flags])
                     @@ hm,
              nh |-> fetch_add(nh),
              handle |-> nh,
              opts |-> OpenOptions(se.cache_policy, flags),
              sys |-> capsys \o o.sys,
              amb |-> back,
              ran |-> capran \o Repeat(cap.amb, Len(o.sys))]

\* do_open(inode, flags, fuse_flags): [err, hm, nh, handle, opts, sys, amb,
\* ran].  The guard of drop_cap_fsetid is dropped after open_inode, or
\* by the early return.
do_open(se, map, ft, hm, nh, amb, inode, flags, fuse_flags, fail) ==
    LET kill == se.killpriv_v2 /\ "KILL_SUIDGID" \in fuse_flags
        cap == IF kill THEN drop_cap_fsetid(amb, fail = "cap")
               ELSE [err |-> "ok", amb |-> amb]
        back == [cap.amb EXCEPT !.caps = amb.caps]
        o == open_inode(se, map, ft, inode, flags, fail)
        capsys == IF kill THEN <<"drop_cap_fsetid">> ELSE <<>>
        capran == IF kill THEN <<cap.amb>> ELSE <<>>
        none == [err |-> "ok", hm |-> hm, nh |-> nh, handle |-> 0, opts |-> {},
                 sys |-> <<>>, amb |-> amb, ran |-> <<>>]
    IN  IF cap.err # "ok"
        THEN [none EXCEPT !.err = cap.err, !.sys = capsys, !.amb = cap.amb,
                          !.ran = capran]
        ELSE IF o.err # "ok"
        THEN [none EXCEPT !.err = o.err, !.sys = capsys \o o.sys, !.amb = back,
                          !.ran = capran \o Repeat(cap.amb, Len(o.sys))]
        ELSE [err |-> "ok",
              hm |-> (nh :> [inode |-> inode, file |-> o.file, flags |-> flags])
                     @@ hm,
              nh |-> fetch_add(nh),
              handle |-> nh,
              opts |-> OpenOptions(se.cache_policy, flags),
              sys |-> capsys \o o.sys,
              amb |-> back,
              ran |-> capran \o Repeat(cap.amb, Len(o.sys))]

\* get_dirdata(handle, inode, flags): [err, data, sys]
get_dirdata(se, map, ft, hm, handle, inode, flags, fail) ==
    IF ~se.no_opendir
    THEN LET g == HandleGet(hm, handle, inode)
         IN  [err |-> g.err, data |-> g.data, sys |-> <<>>]
    ELSE LET o == open_inode(se, map, ft, inode, flags \cup {"O_DIRECTORY"}, fail)
         IN  [err |-> o.err,
              data |-> [inode |-> inode, file |-> o.file, flags |-> flags],
              sys |-> o.sys]

\* get_data with the handle looked up by its id alone, whatever object it is
\* registered to
get_data_any_object(se, map, ft, hm, handle, inode, flags, fail) ==
    IF ~se.no_open
    THEN LET g == IF handle \in DOMAIN hm
                  THEN HandleGet(hm, handle, hm[handle].inode)
                  ELSE HandleGet(hm, handle, inode)
         IN  [err |-> g.err, data |-> g.data, sys |-> <<>>]
    ELSE LET o == open_inode(se, map, ft, inode, flags, fail)
         IN  [err |-> o.err,
              data |-> [inode |-> inode, file |-> o.file, flags |-> flags],
              sys |-> o.sys]

\* get_data(handle, inode, flags): [err, data, sys]
get_data(se, map, ft, hm, handle, inode, flags, fail) ==
    IF ~se.no_open
    THEN LET g == HandleGet(hm, handle, inode)
         IN  [err |-> g.err, data |-> g.data, sys |-> <<>>]
    ELSE LET o == open_inode(se, map, ft, inode, flags, fail)
         IN  [err |-> o.err,
              data |-> [inode |-> inode, file |-> o.file, flags |-> flags],
              sys |-> o.sys]

(***************************************************************************)
(* Directory enumeration.  The caller's sink is the environment: `script`  *)
(* is [at, what]; the sink accepts every entry offered before its at-th    *)
(* invocation and at the at-th invocation it does `what`: "full" (Ok(0)),  *)
(* "err" (add_entry fails) or "lkerr" (the resolve step fails).            *)
(***************************************************************************)
SinkAt(script, n) == IF n = script.at THEN script.what ELSE "ok"

Scripts == {[at |-> 0, what |-> "ok"]}
           \cup [at : 1..Cardinality(EntryNames), what : {"full", "err", "lkerr"}]

\* the closure of readdir without the forget of the reference just taken
readdir_sink_keeps_ref(t, d, ft, inode, rec, name, what) ==
    LET lk == do_lookup(t, d, ft, inode, name, what = "lkerr")
    IN  IF lk.err # "ok"
        THEN [res |-> "Err", err |-> lk.err, t |-> lk.t,
              entry |-> [name |-> name, ino |-> 0, offset |-> rec.d_off,
                         type_ |-> rec.d_ty, inode |-> 0, sink |-> "lkerr",
                         rec |-> 0, err |-> "ok"]]
        ELSE [res |-> CASE what = "full" -> "Ok0" [] what = "err" -> "Err"
                        [] OTHER -> "OkN",
              err |-> IF what = "err" THEN "EIO" ELSE "ok",
              t |-> lk.t,
              entry |-> [name |-> name, ino |-> lk.inode, offset |-> rec.d_off,
                         type_ |-> rec.d_ty, inode |-> lk.inode, sink |-> what,
                         rec |-> 0, err |-> "ok"]]

\* the closure readdir hands to do_readdir: resolve, forget, then add_entry
readdir_sink(t, d, ft, inode, rec, name, what) ==
    LET lk == do_lookup(t, d, ft, inode, name, what = "lkerr")
    IN  IF lk.err # "ok"
        THEN [res |-> "Err", err |-> lk.err, t |-> lk.t,
              entry |-> [name |-> name, ino |-> 0, offset |-> rec.d_off,
                         type_ |-> rec.d_ty, inode |-> 0, sink |-> "lkerr",
                         rec |-> 0, err |-> "ok"]]
        ELSE [res |-> CASE what = "full" -> "Ok0" [] what = "err" -> "Err"
                        [] OTHER -> "OkN",
              err |-> IF what = "err" THEN "EIO" ELSE "ok",
              t |-> forget_one(lk.t, lk.inode, 1),
              entry |-> [name |-> name, ino |-> lk.inode, offset |-> rec.d_off,
                         type_ |-> rec.d_ty, inode |-> lk.inode, sink |-> what,
                         rec |-> 0, err |-> "ok"]]

\* the closure of readdirplus without the release on Ok(0)
readdirplus_sink_leaks_full(t, d, ft, inode, rec, name, what) ==
    LET lk == do_lookup(t, d, ft, inode, name, what = "lkerr")
    IN  IF lk.err # "ok"
        THEN [res |-> "Err", err |-> lk.err, t |-> lk.t,
              entry |-> [name |-> name, ino |-> 0, offset |-> rec.d_off,
                         type_ |-> rec.d_ty, inode |-> 0, sink |-> "lkerr",
                         rec |-> 0, err |-> "ok"]]
        ELSE [res |-> CASE what = "full" -> "Ok0" [] what = "err" -> "Err"
                        [] OTHER -> "OkN",
              err |-> IF what = "err" THEN "EIO" ELSE "ok",
              t |-> lk.t,
              entry |-> [name |-> name, ino |-> lk.t.map[lk.inode].file,
                         offset |-> rec.d_off, type_ |-> rec.d_ty,
                         inode |-> lk.inode, sink |-> what, rec |-> 0, err |-> "ok"]]

\* the closure readdirplus hands to do_readdir: resolve, add_entry, and
\* release the reference when add_entry returned Ok(0)
readdirplus_sink(t, d, ft, inode, rec, name, what) ==
    LET lk == do_lookup(t, d, ft, inode, name, what = "lkerr")
    IN  IF lk.err # "ok"
        THEN [res |-> "Err", err |-> lk.err, t |-> lk.t,
              entry |-> [name |-> name, ino |-> 0, offset |-> rec.d_off,
                         type_ |-> rec.d_ty, inode |-> 0, sink |-> "lkerr",
                         rec |-> 0, err |-> "ok"]]
        ELSE [res |-> CASE what = "full" -> "Ok0" [] what = "err" -> "Err"
                        [] OTHER -> "OkN",
              err |-> IF what = "err" THEN "EIO" ELSE "ok",
              t |-> IF what = "full" THEN forget_one(lk.t, lk.inode, 1) ELSE lk.t,
              entry |-> [name |-> name, ino |-> lk.t.map[lk.inode].file,
                         offset |-> rec.d_off, type_ |-> rec.d_ty,
                         inode |-> lk.inode, sink |-> what, rec |-> 0, err |-> "ok"]]

\* the error arm of do_readdir's match that swallows every sink error
signal_error_never(buf, i) == FALSE

\* `Err(e) if rem.len() == orig_rem_len`: the error is signalled
signal_error(buf, i) == RemLen(buf, i) = RemLen(buf, 1)

\* the record loop of do_readdir with Ok(0) for a "." or ".." record, which
\* breaks the loop
RECURSIVE readdir_loop_breaks_at_dot(_, _, _, _, _, _, _, _, _, _)
readdir_loop_breaks_at_dot(buf, i, n, t, d, ft, inode, plus, script, offered) ==
    IF i > Len(buf) THEN [res |-> "ok", t |-> t, offered |-> offered]
    ELSE IF starts_with(buf[i].name, CURRENT_DIR_CSTR)
            \/ starts_with(buf[i].name, PARENT_DIR_CSTR)
    THEN [res |-> "ok", t |-> t, offered |-> offered]
    ELSE IF ~HasNul(buf[i].name)
    THEN [res |-> "EINVAL", t |-> t, offered |-> offered]
    ELSE LET name == bytes_to_cstr(buf[i].name)
             r == IF plus
                  THEN readdirplus_sink(t, d, ft, inode, buf[i], name,
                                        SinkAt(script, n + 1))
                  ELSE readdir_sink(t, d, ft, inode, buf[i], name,
                                    SinkAt(script, n + 1))
             off2 == Append(offered, [r.entry EXCEPT !.rec = i, !.err = r.err])
         IN  CASE r.res = "Ok0" -> [res |-> "ok", t |-> r.t, offered |-> off2]
               [] r.res = "OkN" ->
                    readdir_loop_breaks_at_dot(buf, i + 1, n + 1, r.t, d, ft,
                                               inode, plus, script, off2)
               [] OTHER ->
                    IF RemLen(buf, i) = RemLen(buf, 1)
                    THEN [res |-> r.err, t |-> r.t, offered |-> off2]
                    ELSE [res |-> "ok", t |-> r.t, offered |-> off2]

\* the record loop of do_readdir from record i on; n sink invocations so far
RECURSIVE readdir_loop(_, _, _, _, _, _, _, _, _, _)
readdir_loop(buf, i, n, t, d, ft, inode, plus, script, offered) ==
    IF i > Len(buf) THEN [res |-> "ok", t |-> t, offered |-> offered]
    ELSE IF starts_with(buf[i].name, CURRENT_DIR_CSTR)
            \/ starts_with(buf[i].name, PARENT_DIR_CSTR)
    THEN readdir_loop(buf, i + 1, n, t, d, ft, inode, plus, script, offered)
    ELSE IF ~HasNul(buf[i].name)
    THEN [res |-> "EINVAL", t |-> t, offered |-> offered]
    ELSE LET name == bytes_to_cstr(buf[i].name)
             r == IF plus
                  THEN readdirplus_sink(t, d, ft, inode, buf[i], name,
                                        SinkAt(script, n + 1))
                  ELSE readdir_sink(t, d, ft, inode, buf[i], name,
                                    SinkAt(script, n + 1))
             off2 == Append(offered, [r.entry EXCEPT !.rec = i, !.err = r.err])
         IN  CASE r.res = "Ok0" -> [res |-> "ok", t |-> r.t, offered |-> off2]
               [] r.res = "OkN" ->
                    readdir_loop(buf, i + 1, n + 1, r.t, d, ft, inode, plus,
                                 script, off2)
               [] OTHER ->
                    IF signal_error(buf, i)
                    THEN [res |-> r.err, t |-> r.t, offered |-> off2]
                    ELSE [res |-> "ok", t |-> r.t, offered |-> off2]

\* do_readdir that takes a failed getdents64 for an empty buffer
do_readdir_short_is_empty(se, t, d, ft, hm, inode, handle, size, offset, plus, script, fail) ==
    LET data == get_dirdata(se, t.map, ft, hm, handle, inode, {"O_RDONLY"}, fail)
        pos == lseek64(AsOff64(offset))
        gd == getdents64(d, ft, data.data.file, pos, size)
        none == [res |-> "ok", t |-> t, offered |-> <<>>, nbuf |-> 0,
                 sys |-> <<>>]
    IN  IF size = 0 THEN none
        ELSE IF data.err # "ok"
        THEN [none EXCEPT !.res = data.err, !.sys = data.sys]
        ELSE IF pos < 0 \/ fail = "lseek"
        THEN [none EXCEPT !.res = "EINVAL", !.sys = data.sys \o <<"lseek64">>]
        ELSE IF gd.res < 0
        THEN [none EXCEPT !.sys = data.sys \o <<"lseek64", "getdents64">>]
        ELSE LET r == readdir_loop(gd.buf, 1, 0, t, d, ft, inode, plus, script,
                                   <<>>)
             IN  [res |-> r.res, t |-> r.t, offered |-> r.offered,
                  nbuf |-> Len(gd.buf),
                  sys |-> data.sys \o <<"lseek64", "getdents64">>]

\* do_readdir(inode, handle, size, offset, add_entry): [res, t, offered, sys]
do_readdir(se, t, d, ft, hm, inode, handle, size, offset, plus, script, fail) ==
    LET data == get_dirdata(se, t.map, ft, hm, handle, inode, {"O_RDONLY"}, fail)
        pos == lseek64(AsOff64(offset))
        gd == getdents64(d, ft, data.data.file, pos, size)
        none == [res |-> "ok", t |-> t, offered |-> <<>>, nbuf |-> 0,
                 sys |-> <<>>]
    IN  IF size = 0 THEN none
        ELSE IF data.err # "ok"
        THEN [none EXCEPT !.res = data.err, !.sys = data.sys]
        ELSE IF pos < 0 \/ fail = "lseek"
        THEN [none EXCEPT !.res = "EINVAL", !.sys = data.sys \o <<"lseek64">>]
        ELSE IF gd.res < 0
        THEN [none EXCEPT !.res = gd.errno,
                          !.sys = data.sys \o <<"lseek64", "getdents64">>]
        ELSE LET r == readdir_loop(gd.buf, 1, 0, t, d, ft, inode, plus, script,
                                   <<>>)
             IN  [res |-> r.res, t |-> r.t, offered |-> r.offered,
                  nbuf |-> Len(gd.buf),
                  sys |-> data.sys \o <<"lseek64", "getdents64">>]

(***************************************************************************)
(* Construction.                                                           *)
(***************************************************************************)
SlashName == <<"a", "/">>
LookupNames == EntryNames \cup {DotName, SlashName}
Inodes == 1..MaxInode
Handles == 1..MaxHandle
Counts == 1..MaxCount

\* import(): the root record
RootRecord == [file |-> RootFile, mode |-> "dir", refcount |-> 1]

\* the byte range of a request and what the host reports as the size of the
\* file: here an empty range at the start of an empty file
NoRange == [st_size |-> 0, offset |-> 0, size |-> 0, mode |-> "allocate"]

\* the attributes of a host file right after its creation, with permission
\* bits 0o644, and those of the files that the host holds before the first
\* request
NewAttr == [sugid |-> FALSE, perm |-> 420, owner |-> 0, gid |-> 0, size |-> 0,
            mtime |-> 0]
OldAttr == [NewAttr EXCEPT !.size = 2]

NoCall == [op |-> "none", res |-> "ok", inode |-> 0, handle |-> 0,
           name |-> <<>>, newname |-> <<>>, arg |-> {}, offered |-> <<>>,
           nbuf |-> 0, ran |-> <<>>, fuse_flags |-> {}, geo |-> NoRange,
           reqs |-> <<>>, sys |-> <<>>, attr |-> NewAttr, want |-> NewAttr,
           was |-> NewAttr, src |-> 0, opts |-> {}, mask |-> 0,
           ctx |-> [uid |-> 0, gid |-> 0]]

\* a worker thread that is in no call
Workers == 1..MaxWorker
Idle == [pc |-> "idle", op |-> "none", plus |-> FALSE, inode |-> 0,
         handle |-> 0, size |-> 0, offset |-> 0, script |-> [at |-> 0, what |-> "ok"],
         file |-> 0, buf |-> <<>>, res |-> "ok", offered |-> <<>>, during |-> 0,
         flags |-> {}, arc |-> 0, holds |-> {}, step |-> 0]

\* a descriptor nobody touched yet; `applied` is {"unset"} until F_SETFL ran
NoDescriptor == [pos |-> 0, lock |-> 0, dropped |-> FALSE, closed |-> FALSE,
                 kept |-> {}, applied |-> {"unset"}]

NoListing == [cookie |-> 0, got |-> <<>>, done |-> FALSE, failed |-> FALSE]

\* Config: what PassthroughFs::new is given
DefaultConfig ==
    [do_import |-> TRUE, writeback |-> FALSE, no_open |-> FALSE,
     no_opendir |-> FALSE, killpriv_v2 |-> FALSE, allow_direct_io |-> FALSE]

\* the session flags after PassthroughFs::new: nothing negotiated yet
DefaultSession ==
    [no_open |-> FALSE, no_opendir |-> FALSE, killpriv_v2 |-> FALSE,
     seal_size |-> FALSE, no_readdir |-> FALSE, writeback |-> FALSE,
     cache_policy |-> "always", cfg |-> DefaultConfig]

\* the state after PassthroughFs::new and import(), on a host whose root
\* directory is `d` with files of types `ft`; history kept iff `hist`
InitOn(d, ft, se, hist) ==
    /\ inode_map = (ROOT_ID :> RootRecord)
    /\ next_inode = ROOT_ID + 1
    /\ handle_map = << >>
    /\ next_handle = 1
    /\ dirents = d
    /\ ftype = ft
    /\ sess = se
    /\ balance = IF hist THEN (ROOT_ID :> 1) ELSE << >>
    /\ issued = {}
    /\ last = NoCall
    /\ listing = NoListing
    /\ workers = [w \in Workers |-> Idle]
    /\ fdstate = [h \in Handles |-> NoDescriptor]
    /\ ambient = Server
    /\ fattr = [f \in 1..MaxFiles |->
                   IF f <= Len(ft) THEN OldAttr ELSE NewAttr]

\* the root directory holds a regular file a and b, a device or a second
\* name of a
HostLayouts == {(NameA :> 2) @@ (NameB :> 3), (NameA :> 2) @@ (NameB :> 2)}

Init ==
    \E d \in HostLayouts :
        InitOn(d, <<"dir", "reg", "blk">>, DefaultSession, FALSE)

(***************************************************************************)
(* Handlers of the Object Table.                                           *)
(***************************************************************************)
\* FileSystem::lookup with the check of create and mkdir
Lookup_validated(parent, name, fail) ==
    \E r \in {IF ~(/\ name # <<>>
                   /\ "/" \notin {name[k] : k \in 1..Len(name)}
                   /\ name \notin {DotName, DotDotName})
             THEN [err |-> "EINVAL", inode |-> 0, t |-> Table]
             ELSE do_lookup(Table, dirents, ftype, parent, name, fail)} :
        /\ Bounded(r.t)
        /\ SetTable(r.t)
        /\ last' = [NoCall EXCEPT !.op = "lookup", !.res = r.err,
                                  !.inode = r.inode, !.name = name]
        /\ UNCHANGED <<handle_map, next_handle, dirents, ftype, sess, issued,
                       listing, workers, fdstate, ambient, fattr>>

\* FileSystem::lookup
Lookup(parent, name, fail) ==
    \E r \in {IF "/" \in {name[k] : k \in 1..Len(name)}
             THEN [err |-> "EINVAL", inode |-> 0, t |-> Table]
             ELSE do_lookup(Table, dirents, ftype, parent, name, fail)} :
        /\ Bounded(r.t)
        /\ SetTable(r.t)
        /\ last' = [NoCall EXCEPT !.op = "lookup", !.res = r.err,
                                  !.inode = r.inode, !.name = name]
        /\ UNCHANGED <<handle_map, next_handle, dirents, ftype, sess, issued, listing, workers,
                   fdstate, ambient, fattr>>

\* the history after the caller asked for the releases `requests`
RECURSIVE Requested(_, _)
Requested(bal, requests) ==
    IF requests = <<>> THEN bal
    ELSE Requested(Track(bal, requests[1][1], 0 - requests[1][2]),
                   Tail(requests))

\* FileSystem::forget
Forget(inode, count) ==
    \E t \in {forget(Table, inode, count)} :
        /\ inode < next_inode
        /\ Bounded(t)
        /\ inode_map' = t.map
        /\ next_inode' = t.nxt
        /\ balance' = Requested(balance, << <<inode, count>> >>)
        /\ last' = [NoCall EXCEPT !.op = "forget",
                                  !.reqs = << <<inode, count>> >>]
        /\ UNCHANGED <<handle_map, next_handle, dirents, ftype, sess, issued, listing, workers,
                   fdstate, ambient, fattr>>

\* FileSystem::batch_forget
BatchForget(requests) ==
    \E t \in {batch_forget(Table, requests)} :
        /\ \A k \in 1..Len(requests) : requests[k][1] < next_inode
        /\ Bounded(t)
        /\ inode_map' = t.map
        /\ next_inode' = t.nxt
        /\ balance' = Requested(balance, requests)
        /\ last' = [NoCall EXCEPT !.op = "batch_forget", !.reqs = requests]
        /\ UNCHANGED <<handle_map, next_handle, dirents, ftype, sess, issued, listing, workers,
                   fdstate, ambient, fattr>>

\* FileSystem::opendir
Opendir(inode, flags, fail) ==
    \E r \in {IF sess.no_opendir
             THEN [err |-> "ENOSYS", hm |-> handle_map, nh |-> next_handle,
                   handle |-> 0, opts |-> {}, sys |-> <<>>, amb |-> ambient,
                   ran |-> <<>>]
             ELSE do_open(sess, inode_map, ftype, handle_map, next_handle, ambient,
                          inode, flags \cup {"O_DIRECTORY"}, {}, fail)} :
        /\ next_handle <= MaxHandle
        /\ handle_map' = r.hm
        /\ next_handle' = r.nh
        /\ issued' = IF r.err = "ok" THEN issued \cup {r.handle} ELSE issued
        /\ last' = [NoCall EXCEPT !.op = "opendir", !.res = r.err,
                                  !.inode = inode, !.handle = r.handle,
                                  !.sys = r.sys, !.ran = r.ran,
                                  !.opts = r.opts]
        /\ ambient' = r.amb
        /\ UNCHANGED <<inode_map, next_inode, balance, dirents, ftype, sess, listing, workers,
                   fdstate, fattr>>

\* FileSystem::readdir (plus = FALSE) and FileSystem::readdirplus
ReaddirCall(plus, inode, handle, size, offset, script, fail) ==
    \E r \in {IF sess.no_readdir
             THEN [res |-> "ok", t |-> Table, offered |-> <<>>, nbuf |-> 0,
                   sys |-> <<>>]
             ELSE do_readdir(sess, Table, dirents, ftype, handle_map, inode,
                             handle, size, offset, plus, script, fail)} :
        /\ Bounded(r.t)
        /\ SetTable(r.t)
        /\ last' = [NoCall EXCEPT
                       !.op = IF plus THEN "readdirplus" ELSE "readdir",
                       !.res = r.res, !.inode = inode, !.handle = handle,
                       !.arg = size, !.offered = r.offered, !.nbuf = r.nbuf,
                       !.geo = [NoRange EXCEPT !.offset = offset],
                       !.sys = r.sys]
        /\ UNCHANGED <<handle_map, next_handle, dirents, ftype, sess, issued>>

\* FileSystem::readdir
Readdir(inode, handle, size, offset, script, fail) ==
    /\ ReaddirCall(FALSE, inode, handle, size, offset, script, fail)
    /\ UNCHANGED <<listing, workers, fdstate, ambient, fattr>>

\* FileSystem::readdirplus
Readdirplus(inode, handle, size, offset, script, fail) ==
    /\ ReaddirCall(TRUE, inode, handle, size, offset, script, fail)
    /\ UNCHANGED <<listing, workers, fdstate, ambient, fattr>>

\* the entries of a call's reply: those the sink accepted
RECURSIVE Accepted(_)
Accepted(offered) ==
    IF offered = <<>> THEN <<>>
    ELSE (IF offered[1].sink = "ok" THEN <<offered[1]>> ELSE <<>>)
         \o Accepted(Tail(offered))

\* the caller's listing after a call: the next cookie is the cookie of the
\* last entry of the reply, and a reply without entries ends the listing
Chain(l, call) ==
    LET acc == Accepted(call.offered)
    IN  [cookie |-> IF acc = <<>> THEN l.cookie ELSE acc[Len(acc)].offset,
         got    |-> l.got \o [k \in 1..Len(acc) |-> acc[k].name],
         done   |-> acc = <<>>,
         failed |-> call.res # "ok"]

\* the next readdir or readdirplus of a listing of the root directory on
\* `handle`, with the cookie the caller chains
ListNext(plus, handle, size, script) ==
    /\ ~listing.done
    /\ ReaddirCall(plus, ROOT_ID, handle, size, listing.cookie, script, "none")
    /\ listing' = Chain(listing, last')
    /\ UNCHANGED <<workers, fdstate, ambient, fattr>>

(***************************************************************************)
(* Session negotiation, open, release and destroy.                         *)
(***************************************************************************)
\* FileSystem::init(capable): the session flags it stores
init(se, capable) ==
    LET on(flag, option) ==
            (~se.cfg.do_import \/ se.cfg[flag]) /\ option \in capable
    IN  [se EXCEPT
            !.writeback = @ \/ on("writeback", "WRITEBACK_CACHE"),
            !.no_open = @ \/ on("no_open", "ZERO_MESSAGE_OPEN"),
            !.no_opendir = @ \/ on("no_opendir", "ZERO_MESSAGE_OPENDIR"),
            !.killpriv_v2 = @ \/ on("killpriv_v2", "HANDLE_KILLPRIV_V2")]

\* FileSystem::init(capable): the options of its reply
init_opts(se, capable) ==
    LET on(flag, option) ==
            (~se.cfg.do_import \/ se.cfg[flag]) /\ option \in capable
    IN  {"DO_READDIRPLUS", "READDIRPLUS_AUTO"}
        \cup {o \in {"WRITEBACK_CACHE"} : on("writeback", o)}
        \cup {o \in {"ZERO_MESSAGE_OPEN"} : on("no_open", o)}
        \cup {o \in {"ZERO_MESSAGE_OPENDIR"} : on("no_opendir", o)}
        \cup {o \in {"HANDLE_KILLPRIV_V2"} : on("killpriv_v2", o)}
        \cup (capable \cap {"PERFILE_DAX"})

\* FileSystem::init
FsInit(capable) ==
    /\ sess' = init(sess, capable)
    /\ inode_map' = IF sess.cfg.do_import
                    THEN (ROOT_ID :> RootRecord) @@ inode_map ELSE inode_map
    /\ last' = [NoCall EXCEPT !.op = "init", !.arg = capable,
                              !.opts = init_opts(sess, capable)]
    /\ UNCHANGED <<next_inode, handle_map, next_handle, dirents, ftype, balance,
                   issued, listing, workers,
                   fdstate, ambient, fattr>>

\* FileSystem::open
Open(inode, flags, fuse_flags, fail) ==
    \E r \in {IF sess.no_open
             THEN [err |-> "ENOSYS", hm |-> handle_map, nh |-> next_handle,
                   handle |-> 0, opts |-> {}, sys |-> <<>>, amb |-> ambient,
                   ran |-> <<>>]
             ELSE do_open(sess, inode_map, ftype, handle_map, next_handle, ambient,
                          inode, flags, fuse_flags, fail)} :
        /\ next_handle <= MaxHandle
        /\ handle_map' = r.hm
        /\ next_handle' = r.nh
        /\ issued' = IF r.err = "ok" THEN issued \cup {r.handle} ELSE issued
        /\ last' = [NoCall EXCEPT !.op = "open", !.res = r.err,
                                  !.inode = inode, !.handle = r.handle,
                                  !.arg = flags, !.fuse_flags = fuse_flags,
                                  !.sys = r.sys, !.ran = r.ran,
                                  !.opts = r.opts]
        /\ ambient' = r.amb
        /\ UNCHANGED <<inode_map, next_inode, balance, dirents, ftype, sess,
                       listing, workers,
                   fdstate, fattr>>

\* do_release(inode, handle): remove the record that belongs to `inode`
do_release(hm, inode, handle) ==
    IF HandleGet(hm, handle, inode).err = "ok"
    THEN [err |-> "ok", hm |-> Remove(hm, handle), sys |-> <<"close">>]
    ELSE [err |-> "EBADF", hm |-> hm, sys |-> <<>>]

\* the descriptors after the Handle Table went from hm to hm2: the table's
\* Arc of every HandleData that left is dropped.  When no call holds another
\* Arc the HandleData dies and its File closes the descriptor, whose position
\* and flags are gone with it; otherwise it lives on outside the table, with
\* the flags it recorded.
Detach(fd, hm, hm2, ws) ==
    [h \in DOMAIN fd |->
        IF h \in DOMAIN hm /\ h \notin DOMAIN hm2
        THEN IF \E w \in DOMAIN ws : ws[w].arc = h
             THEN [fd[h] EXCEPT !.kept = hm[h].flags]
             ELSE [NoDescriptor EXCEPT !.closed = TRUE]
        ELSE fd[h]]

\* a handler that changes at most the Handle Table
HandleCall(op, inode, handle, arg, r) ==
    /\ handle_map' = r.hm
    /\ fdstate' = Detach(fdstate, handle_map, r.hm, workers)
    /\ last' = [NoCall EXCEPT !.op = op, !.res = r.err, !.inode = inode,
                              !.handle = handle, !.arg = arg, !.sys = r.sys]
    /\ UNCHANGED <<inode_map, next_inode, balance, next_handle, dirents, ftype,
                   sess, issued, listing, workers, ambient, fattr>>

\* release that goes to do_release whatever was negotiated
Release_stateful(inode, handle) ==
    HandleCall("release", inode, handle, {},
               do_release(handle_map, inode, handle))

\* FileSystem::release
Release(inode, handle) ==
    HandleCall("release", inode, handle, {},
               IF sess.no_open
               THEN [err |-> "ENOSYS", hm |-> handle_map, sys |-> <<>>]
               ELSE do_release(handle_map, inode, handle))

\* FileSystem::releasedir
Releasedir(inode, handle) ==
    HandleCall("releasedir", inode, handle, {},
               IF sess.no_opendir
               THEN [err |-> "ENOSYS", hm |-> handle_map, sys |-> <<>>]
               ELSE do_release(handle_map, inode, handle))

\* destroy that clears the Object Table only
Destroy_keeps_handles ==
    /\ inode_map' = (ROOT_ID :> RootRecord)
    /\ last' = [NoCall EXCEPT !.op = "destroy"]
    /\ UNCHANGED <<next_inode, handle_map, next_handle, balance, dirents,
                   ftype, sess, issued, listing, workers,
                   fdstate, ambient, fattr>>

\* FileSystem::destroy: both tables cleared, the root imported again
Destroy ==
    /\ handle_map' = << >>
    /\ inode_map' = (ROOT_ID :> RootRecord)
    /\ fdstate' = Detach(fdstate, handle_map, << >>, workers)
    /\ last' = [NoCall EXCEPT !.op = "destroy"]
    /\ UNCHANGED <<next_inode, next_handle, balance, dirents, ftype, sess,
                   issued, listing, workers, ambient, fattr>>

(***************************************************************************)
(* Handlers that take a handle.                                            *)
(***************************************************************************)
\* check_fd_flags that sets the descriptor's flags without recording them
check_fd_flags_unrecorded(hm, handle, data, flags, fail) ==
    IF data.flags = flags THEN [err |-> "ok", hm |-> hm, sys |-> <<>>]
    ELSE IF fail = "fcntl" THEN [err |-> "EINVAL", hm |-> hm, sys |-> <<"fcntl">>]
    ELSE [err |-> "ok", hm |-> hm, sys |-> <<"fcntl">>]

\* check_fd_flags(data, fd, flags): [err, hm, sys]; the flags are recorded in
\* the HandleRecord the Handle Table shares, if `data` is one
check_fd_flags(hm, handle, data, flags, fail) ==
    IF data.flags = flags THEN [err |-> "ok", hm |-> hm, sys |-> <<>>]
    ELSE IF fail = "fcntl" THEN [err |-> "EINVAL", hm |-> hm, sys |-> <<"fcntl">>]
    ELSE [err |-> "ok",
          hm |-> IF handle \in DOMAIN hm /\ hm[handle] = data
                 THEN [hm EXCEPT ![handle].flags = flags] ELSE hm,
          sys |-> <<"fcntl">>]

\* FileSystem::read: [err, hm, sys].  `f` is a File made from the descriptor
\* of the HandleData and becomes ManuallyDrop only after check_fd_flags: the
\* `?` before that drops it, which closes the descriptor.
read(se, map, ft, hm, inode, handle, flags, fail) ==
    LET data == get_data(se, map, ft, hm, handle, inode, {"O_RDONLY"}, fail)
        cf == check_fd_flags(hm, handle, data.data, flags, fail)
    IN  IF data.err # "ok" THEN [err |-> data.err, hm |-> hm, sys |-> data.sys]
        ELSE IF cf.err # "ok"
        THEN [err |-> cf.err, hm |-> hm,
              sys |-> data.sys \o cf.sys \o <<"close">>]
        ELSE [err |-> IF fail = "io" THEN "EIO" ELSE "ok", hm |-> cf.hm,
              sys |-> data.sys \o cf.sys \o <<"preadv">>]

\* seal_size_check(opcode, file_size, offset, size, mode): EPERM when the
\* request could change the size of the file: a write or an allocation that
\* ends past the end of the file, a collapse of a range
seal_size_check(opcode, file_size, offset, size, mode) ==
    IF opcode = "fallocate" /\ mode = "collapse" THEN "EPERM"
    ELSE IF offset + size > file_size THEN "EPERM"
    ELSE "ok"

\* FileSystem::write that drops the capability before the size-sealing check
write_seal_after_drop(se, map, ft, hm, amb, inode, handle, flags, fuse_flags, geo, fail) ==
    LET data == get_data(se, map, ft, hm, handle, inode, {"O_RDWR"}, fail)
        cf == check_fd_flags(hm, handle, data.data, flags, fail)
        seal == IF se.seal_size
                THEN seal_size_check("write", geo.st_size, geo.offset, geo.size,
                                     geo.mode)
                ELSE "ok"
        kill == se.killpriv_v2 /\ "WRITE_KILL_PRIV" \in fuse_flags
        cap == IF kill THEN drop_cap_fsetid(amb, fail = "cap")
               ELSE [err |-> "ok", amb |-> amb]
        back == [cap.amb EXCEPT !.caps = amb.caps]
        sys1 == data.sys \o cf.sys
        sys2 == sys1 \o (IF kill THEN <<"drop_cap_fsetid">> ELSE <<>>)
        ran2 == Repeat(amb, Len(sys1)) \o (IF kill THEN <<cap.amb>> ELSE <<>>)
        sys3 == sys2 \o (IF se.seal_size THEN <<"fstat">> ELSE <<>>)
        ran3 == ran2 \o (IF se.seal_size THEN <<cap.amb>> ELSE <<>>)
        none == [err |-> "ok", hm |-> hm, sys |-> <<>>, amb |-> amb, ran |-> <<>>]
    IN  IF data.err # "ok"
        THEN [none EXCEPT !.err = data.err, !.sys = data.sys,
                          !.ran = Repeat(amb, Len(data.sys))]
        ELSE IF cf.err # "ok"
        THEN [none EXCEPT !.err = cf.err, !.sys = sys1,
                          !.ran = Repeat(amb, Len(sys1))]
        ELSE IF cap.err # "ok"
        THEN [none EXCEPT !.err = cap.err, !.hm = cf.hm, !.sys = sys2,
                          !.amb = cap.amb, !.ran = ran2]
        ELSE IF se.seal_size /\ fail = "stat"
        THEN [none EXCEPT !.err = "EIO", !.hm = cf.hm, !.sys = sys3,
                          !.amb = back, !.ran = ran3]
        ELSE IF seal # "ok"
        THEN [none EXCEPT !.err = seal, !.hm = cf.hm, !.sys = sys3,
                          !.amb = back, !.ran = ran3]
        ELSE [err |-> IF fail = "io" THEN "EIO" ELSE "ok", hm |-> cf.hm,
              sys |-> sys3 \o <<"pwritev">>, amb |-> back,
              ran |-> ran3 \o <<cap.amb>>]

\* FileSystem::write: [err, hm, sys, amb, ran].  The guard of drop_cap_fsetid
\* lives to the end of the function.  As in read, the File made from the
\* descriptor is dropped by every `?` before ManuallyDrop::new.
write(se, map, ft, hm, amb, inode, handle, flags, fuse_flags, geo, fail) ==
    LET data == get_data(se, map, ft, hm, handle, inode, {"O_RDWR"}, fail)
        cf == check_fd_flags(hm, handle, data.data, flags, fail)
        seal == IF se.seal_size
                THEN seal_size_check("write", geo.st_size, geo.offset, geo.size,
                                     geo.mode)
                ELSE "ok"
        kill == se.killpriv_v2 /\ "WRITE_KILL_PRIV" \in fuse_flags
        cap == IF kill THEN drop_cap_fsetid(amb, fail = "cap")
               ELSE [err |-> "ok", amb |-> amb]
        back == [cap.amb EXCEPT !.caps = amb.caps]
        sys1 == data.sys \o cf.sys
        sys2 == sys1 \o (IF se.seal_size THEN <<"fstat">> ELSE <<>>)
        sys3 == sys2 \o (IF kill THEN <<"drop_cap_fsetid">> ELSE <<>>)
        ran3 == Repeat(amb, Len(sys2)) \o (IF kill THEN <<cap.amb>> ELSE <<>>)
        none == [err |-> "ok", hm |-> hm, sys |-> <<>>, amb |-> amb, ran |-> <<>>]
    IN  IF data.err # "ok"
        THEN [none EXCEPT !.err = data.err, !.sys = data.sys,
                          !.ran = Repeat(amb, Len(data.sys))]
        ELSE IF cf.err # "ok"
        THEN [none EXCEPT !.err = cf.err, !.sys = sys1 \o <<"close">>,
                          !.ran = Repeat(amb, Len(sys1) + 1)]
        ELSE IF se.seal_size /\ fail = "stat"
        THEN [none EXCEPT !.err = "EIO", !.hm = cf.hm,
                          !.sys = sys2 \o <<"close">>,
                          !.ran = Repeat(amb, Len(sys2) + 1)]
        ELSE IF seal # "ok"
        THEN [none EXCEPT !.err = seal, !.hm = cf.hm,
                          !.sys = sys2 \o <<"close">>,
                          !.ran = Repeat(amb, Len(sys2) + 1)]
        ELSE IF cap.err # "ok"
        THEN [none EXCEPT !.err = cap.err, !.hm = cf.hm, !.sys = sys3,
                          !.amb = cap.amb, !.ran = ran3]
        ELSE [err |-> IF fail = "io" THEN "EIO" ELSE "ok", hm |-> cf.hm,
              sys |-> sys3 \o <<"pwritev">>, amb |-> back,
              ran |-> ran3 \o <<cap.amb>>]

\* FileSystem::fsync and fsyncdir: [err, hm, sys]
fsync(se, map, ft, hm, inode, handle, fail) ==
    LET data == get_data(se, map, ft, hm, handle, inode, {"O_RDONLY"}, fail)
    IN  IF data.err # "ok" THEN [err |-> data.err, hm |-> hm, sys |-> data.sys]
        ELSE [err |-> IF fail = "io" THEN "EIO" ELSE "ok", hm |-> hm,
              sys |-> data.sys \o <<"fsync">>]

\* FileSystem::fallocate: [err, hm, sys]
fallocate(se, map, ft, hm, inode, handle, geo, fail) ==
    LET data == get_data(se, map, ft, hm, handle, inode, {"O_RDWR"}, fail)
        seal == IF se.seal_size
                THEN seal_size_check("fallocate", geo.st_size, geo.offset,
                                     geo.size, geo.mode)
                ELSE "ok"
        sys1 == data.sys \o (IF se.seal_size THEN <<"fstat">> ELSE <<>>)
    IN  IF data.err # "ok" THEN [err |-> data.err, hm |-> hm, sys |-> data.sys]
        ELSE IF se.seal_size /\ fail = "stat"
        THEN [err |-> "EIO", hm |-> hm, sys |-> sys1]
        ELSE IF seal # "ok" THEN [err |-> seal, hm |-> hm, sys |-> sys1]
        ELSE [err |-> IF fail = "io" THEN "EIO" ELSE "ok", hm |-> hm,
              sys |-> sys1 \o <<"fallocate64">>]

\* FileSystem::lseek: [err, hm, sys]
lseek(hm, inode, handle, fail) ==
    IF HandleGet(hm, handle, inode).err # "ok"
    THEN [err |-> "EBADF", hm |-> hm, sys |-> <<>>]
    ELSE [err |-> IF fail = "io" THEN "EINVAL" ELSE "ok", hm |-> hm,
          sys |-> <<"lseek">>]

\* FileSystem::flush: [err, hm, sys]
flush(se, hm, inode, handle, fail) ==
    IF se.no_open THEN [err |-> "ENOSYS", hm |-> hm, sys |-> <<>>]
    ELSE IF HandleGet(hm, handle, inode).err # "ok"
    THEN [err |-> "EBADF", hm |-> hm, sys |-> <<>>]
    ELSE IF fail = "io" THEN [err |-> "EMFILE", hm |-> hm, sys |-> <<"dup">>]
    ELSE [err |-> "ok", hm |-> hm, sys |-> <<"dup", "close">>]

\* do_getattr(inode, handle): [err, hm, sys]; handle 0 is None
do_getattr(se, map, hm, inode, handle, fail) ==
    IF inode \notin DOMAIN map THEN [err |-> "NotFound", hm |-> hm, sys |-> <<>>]
    ELSE IF ~se.no_open /\ handle # 0 /\ HandleGet(hm, handle, inode).err # "ok"
    THEN [err |-> "EBADF", hm |-> hm, sys |-> <<>>]
    ELSE [err |-> IF fail = "stat" THEN "EIO" ELSE "ok", hm |-> hm,
          sys |-> <<"fstatat">>]

\* FileSystem::setattr that checks size sealing where it changes the size
setattr_seal_at_size(se, map, ft, hm, amb, inode, handle, valid, fail) ==
    LET by_handle == ~se.no_open /\ handle # 0
        kill == se.killpriv_v2 /\ "KILL_SUIDGID" \in valid
        cap == IF "SIZE" \in valid /\ kill THEN drop_cap_fsetid(amb, fail = "cap")
               ELSE [err |-> "ok", amb |-> amb]
        back == [cap.amb EXCEPT !.caps = amb.caps]
        o == open_inode(se, map, ft, inode, {"O_NONBLOCK", "O_RDWR"}, fail)
        mode_sys == IF "MODE" \in valid
                    THEN <<IF by_handle THEN "fchmod" ELSE "fchmodat">> ELSE <<>>
        own_sys == IF valid \cap {"UID", "GID"} # {} THEN <<"fchownat">> ELSE <<>>
        cap_sys == IF "SIZE" \in valid /\ kill THEN <<"drop_cap_fsetid">> ELSE <<>>
        size_sys == IF "SIZE" \notin valid THEN <<>>
                    ELSE IF by_handle THEN <<"ftruncate">>
                    ELSE o.sys \o (IF o.err = "ok" THEN <<"ftruncate">> ELSE <<>>)
        time_sys == IF valid \cap {"ATIME", "MTIME"} # {}
                    THEN <<IF by_handle THEN "futimens" ELSE "utimensat">>
                    ELSE <<>>
        s1 == mode_sys
        s2 == s1 \o own_sys
        s3 == s2 \o cap_sys
        s4 == s3 \o size_sys
        s5 == s4 \o time_sys
        r2 == Repeat(amb, Len(s2))
        r4 == r2 \o Repeat(cap.amb, Len(s4) - Len(s2))
        r5 == r4 \o Repeat(back, Len(time_sys))
        ga == do_getattr(se, map, hm, inode, handle, fail)
        ret(e, sys, ran, a) ==
            [err |-> e, hm |-> hm, sys |-> sys, amb |-> a, ran |-> ran]
    IN  IF inode \notin DOMAIN map THEN ret("NotFound", <<>>, <<>>, amb)
        ELSE IF by_handle /\ HandleGet(hm, handle, inode).err # "ok"
        THEN ret("EBADF", <<>>, <<>>, amb)
        ELSE IF "MODE" \in valid /\ fail = "chmod"
        THEN ret("EPERM", s1, Repeat(amb, Len(s1)), amb)
        ELSE IF valid \cap {"UID", "GID"} # {} /\ fail = "chown"
        THEN ret("EPERM", s2, r2, amb)
        ELSE IF "SIZE" \in valid /\ se.seal_size THEN ret("EPERM", s2, r2, amb)
        ELSE IF cap.err # "ok" THEN ret(cap.err, s3, r2 \o <<cap.amb>>, cap.amb)
        ELSE IF "SIZE" \in valid /\ ~by_handle /\ o.err # "ok"
        THEN ret(o.err, s4, r4, back)
        ELSE IF "SIZE" \in valid /\ fail = "truncate"
        THEN ret("EFBIG", s4, r4, back)
        ELSE IF valid \cap {"ATIME", "MTIME"} # {} /\ fail = "utimens"
        THEN ret("EPERM", s5, r5, back)
        ELSE ret(ga.err, s5 \o ga.sys, r5 \o Repeat(back, Len(ga.sys)), back)

\* FileSystem::setattr that changes the owner before the permission bits
setattr_owner_first(se, map, ft, hm, amb, inode, handle, valid, fail) ==
    LET by_handle == ~se.no_open /\ handle # 0
        kill == se.killpriv_v2 /\ "KILL_SUIDGID" \in valid
        cap == IF "SIZE" \in valid /\ kill THEN drop_cap_fsetid(amb, fail = "cap")
               ELSE [err |-> "ok", amb |-> amb]
        back == [cap.amb EXCEPT !.caps = amb.caps]
        o == open_inode(se, map, ft, inode, {"O_NONBLOCK", "O_RDWR"}, fail)
        mode_sys == IF "MODE" \in valid
                    THEN <<IF by_handle THEN "fchmod" ELSE "fchmodat">> ELSE <<>>
        own_sys == IF valid \cap {"UID", "GID"} # {} THEN <<"fchownat">> ELSE <<>>
        cap_sys == IF "SIZE" \in valid /\ kill THEN <<"drop_cap_fsetid">> ELSE <<>>
        size_sys == IF "SIZE" \notin valid THEN <<>>
                    ELSE IF by_handle THEN <<"ftruncate">>
                    ELSE o.sys \o (IF o.err = "ok" THEN <<"ftruncate">> ELSE <<>>)
        time_sys == IF valid \cap {"ATIME", "MTIME"} # {}
                    THEN <<IF by_handle THEN "futimens" ELSE "utimensat">>
                    ELSE <<>>
        s1 == own_sys
        s2 == s1 \o mode_sys
        s3 == s2 \o cap_sys
        s4 == s3 \o size_sys
        s5 == s4 \o time_sys
        r2 == Repeat(amb, Len(s2))
        r4 == r2 \o Repeat(cap.amb, Len(s4) - Len(s2))
        r5 == r4 \o Repeat(back, Len(time_sys))
        ga == do_getattr(se, map, hm, inode, handle, fail)
        ret(e, sys, ran, a) ==
            [err |-> e, hm |-> hm, sys |-> sys, amb |-> a, ran |-> ran]
    IN  IF inode \notin DOMAIN map THEN ret("NotFound", <<>>, <<>>, amb)
        ELSE IF by_handle /\ HandleGet(hm, handle, inode).err # "ok"
        THEN ret("EBADF", <<>>, <<>>, amb)
        ELSE IF "SIZE" \in valid /\ se.seal_size THEN ret("EPERM", <<>>, <<>>, amb)
        ELSE IF valid \cap {"UID", "GID"} # {} /\ fail = "chown"
        THEN ret("EPERM", s1, Repeat(amb, Len(s1)), amb)
        ELSE IF "MODE" \in valid /\ fail = "chmod"
        THEN ret("EPERM", s2, r2, amb)
        ELSE IF cap.err # "ok" THEN ret(cap.err, s3, r2 \o <<cap.amb>>, cap.amb)
        ELSE IF "SIZE" \in valid /\ ~by_handle /\ o.err # "ok"
        THEN ret(o.err, s4, r4, back)
        ELSE IF "SIZE" \in valid /\ fail = "truncate"
        THEN ret("EFBIG", s4, r4, back)
        ELSE IF valid \cap {"ATIME", "MTIME"} # {} /\ fail = "utimens"
        THEN ret("EPERM", s5, r5, back)
        ELSE ret(ga.err, s5 \o ga.sys, r5 \o Repeat(back, Len(ga.sys)), back)

\* FileSystem::setattr: [err, hm, sys, amb, ran]; handle 0 is None, `valid`
\* is the set of SetattrValid bits.  The guard of drop_cap_fsetid lives to
\* the end of the block that changes the size.
setattr(se, map, ft, hm, amb, inode, handle, valid, fail) ==
    LET by_handle == ~se.no_open /\ handle # 0
        kill == se.killpriv_v2 /\ "KILL_SUIDGID" \in valid
        cap == IF "SIZE" \in valid /\ kill THEN drop_cap_fsetid(amb, fail = "cap")
               ELSE [err |-> "ok", amb |-> amb]
        back == [cap.amb EXCEPT !.caps = amb.caps]
        o == open_inode(se, map, ft, inode, {"O_NONBLOCK", "O_RDWR"}, fail)
        mode_sys == IF "MODE" \in valid
                    THEN <<IF by_handle THEN "fchmod" ELSE "fchmodat">> ELSE <<>>
        own_sys == IF valid \cap {"UID", "GID"} # {} THEN <<"fchownat">> ELSE <<>>
        cap_sys == IF "SIZE" \in valid /\ kill THEN <<"drop_cap_fsetid">> ELSE <<>>
        size_sys == IF "SIZE" \notin valid THEN <<>>
                    ELSE IF by_handle THEN <<"ftruncate">>
                    ELSE o.sys \o (IF o.err = "ok" THEN <<"ftruncate">> ELSE <<>>)
        time_sys == IF valid \cap {"ATIME", "MTIME"} # {}
                    THEN <<IF by_handle THEN "futimens" ELSE "utimensat">>
                    ELSE <<>>
        s1 == mode_sys
        s2 == s1 \o own_sys
        s3 == s2 \o cap_sys
        s4 == s3 \o size_sys
        s5 == s4 \o time_sys
        r2 == Repeat(amb, Len(s2))
        r4 == r2 \o Repeat(cap.amb, Len(s4) - Len(s2))
        r5 == r4 \o Repeat(back, Len(time_sys))
        ga == do_getattr(se, map, hm, inode, handle, fail)
        ret(e, sys, ran, a) ==
            [err |-> e, hm |-> hm, sys |-> sys, amb |-> a, ran |-> ran]
    IN  IF inode \notin DOMAIN map THEN ret("NotFound", <<>>, <<>>, amb)
        ELSE IF by_handle /\ HandleGet(hm, handle, inode).err # "ok"
        THEN ret("EBADF", <<>>, <<>>, amb)
        ELSE IF "SIZE" \in valid /\ se.seal_size THEN ret("EPERM", <<>>, <<>>, amb)
        ELSE IF "MODE" \in valid /\ fail = "chmod"
        THEN ret("EPERM", s1, Repeat(amb, Len(s1)), amb)
        ELSE IF valid \cap {"UID", "GID"} # {} /\ fail = "chown"
        THEN ret("EPERM", s2, r2, amb)
        ELSE IF cap.err # "ok" THEN ret(cap.err, s3, r2 \o <<cap.amb>>, cap.amb)
        ELSE IF "SIZE" \in valid /\ ~by_handle /\ o.err # "ok"
        THEN ret(o.err, s4, r4, back)
        ELSE IF "SIZE" \in valid /\ fail = "truncate"
        THEN ret("EFBIG", s4, r4, back)
        ELSE IF valid \cap {"ATIME", "MTIME"} # {} /\ fail = "utimens"
        THEN ret("EPERM", s5, r5, back)
        ELSE ret(ga.err, s5 \o ga.sys, r5 \o Repeat(back, Len(ga.sys)), back)

\* The host: what one system call of a handler does to the attributes of the
\* file it names.  `amb` is the identity the call runs under, `req` holds the
\* values the call passes.  Changing the owner clears the set-id bits, and
\* so does changing the size or the content without CAP_FSETID.
Kernel(a, e, amb, req) ==
    IF e \in {"fchmod", "fchmodat"}
    THEN [a EXCEPT !.sugid = req.sugid, !.perm = req.perm]
    ELSE IF e = "fchownat"
    THEN [a EXCEPT !.owner = req.owner, !.gid = req.gid, !.sugid = FALSE]
    ELSE IF e \in {"ftruncate", "pwritev", "fallocate64"}
    THEN [a EXCEPT !.size = req.size,
                   !.sugid = @ /\ "CAP_FSETID" \in amb.caps]
    ELSE IF e \in {"futimens", "utimensat"} THEN [a EXCEPT !.mtime = req.mtime]
    ELSE a

\* the attributes after the first n system calls of a trace
RECURSIVE Applied(_, _, _, _, _)
Applied(a, sys, ran, n, req) ==
    IF n = 0 THEN a
    ELSE Kernel(Applied(a, sys, ran, n - 1, req), sys[n], ran[n], req)

\* the host file behind a request: that of the handle when one is given and
\* registered, else that of the object; 0 when there is none
FileOf(inode, handle) ==
    IF handle \in DOMAIN handle_map THEN handle_map[handle].file
    ELSE IF inode \in DOMAIN inode_map THEN inode_map[inode].file
    ELSE 0

\* what fstat and fstatat report for the file behind a request
AttrOf(fa, inode, handle) ==
    IF FileOf(inode, handle) \in DOMAIN fa
    THEN fa[FileOf(inode, handle)] ELSE NewAttr

\* the host files after a handler's system calls; a call that returns an
\* error failed in its last system call, which then changed nothing
Host(inode, handle, r, req) ==
    IF FileOf(inode, handle) \notin DOMAIN fattr THEN fattr
    ELSE [fattr EXCEPT ![FileOf(inode, handle)] =
              Applied(@, r.sys, r.ran,
                      IF r.err = "ok" \/ r.sys = <<>> THEN Len(r.sys)
                      ELSE Len(r.sys) - 1, req)]

\* `mode & bit != 0` for a bit given as a power of two
Has(mode, bit) == (mode \div bit) % 2 = 1

\* FileSystem::access with the owner class shutting out the other classes
access_by_class(map, st, ctx, inode, mask) ==
    LET mode == mask % 8
        bit(own, grp, oth) ==
            IF st.owner = ctx.uid THEN Has(st.perm, own)
            ELSE IF st.gid = ctx.gid THEN Has(st.perm, grp)
            ELSE Has(st.perm, oth)
    IN  IF inode \notin DOMAIN map THEN "NotFound"
        ELSE IF mode = 0 THEN "ok"
        ELSE IF Has(mode, 4) /\ ctx.uid # 0 /\ ~bit(256, 32, 4) THEN "EACCES"
        ELSE IF Has(mode, 2) /\ ctx.uid # 0 /\ ~bit(128, 16, 2) THEN "EACCES"
        ELSE IF /\ Has(mode, 1)
                /\ (ctx.uid # 0 \/ (~Has(st.perm, 64) /\ ~Has(st.perm, 8)
                                     /\ ~Has(st.perm, 1)))
                /\ ~bit(64, 8, 1)
        THEN "EACCES"
        ELSE "ok"

\* FileSystem::access(ctx, inode, mask): the error or "ok"; `st` is what
\* stat_fd reports for the object's file
access(map, st, ctx, inode, mask) ==
    LET mode == mask % 8
    IN  IF inode \notin DOMAIN map THEN "NotFound"
        ELSE IF mode = 0 THEN "ok"
        ELSE IF /\ Has(mode, 4)
                /\ ctx.uid # 0
                /\ (st.owner # ctx.uid \/ ~Has(st.perm, 256))
                /\ (st.gid # ctx.gid \/ ~Has(st.perm, 32))
                /\ ~Has(st.perm, 4)
        THEN "EACCES"
        ELSE IF /\ Has(mode, 2)
                /\ ctx.uid # 0
                /\ (st.owner # ctx.uid \/ ~Has(st.perm, 128))
                /\ (st.gid # ctx.gid \/ ~Has(st.perm, 16))
                /\ ~Has(st.perm, 2)
        THEN "EACCES"
        ELSE IF /\ Has(mode, 1)
                /\ (ctx.uid # 0 \/ (~Has(st.perm, 64) /\ ~Has(st.perm, 8)
                                     /\ ~Has(st.perm, 1)))
                /\ (st.owner # ctx.uid \/ ~Has(st.perm, 64))
                /\ (st.gid # ctx.gid \/ ~Has(st.perm, 8))
                /\ ~Has(st.perm, 1)
        THEN "EACCES"
        ELSE "ok"

\* FileSystem::access
Access(inode, ctx, mask) ==
    /\ last' = [NoCall EXCEPT
                   !.op = "access", !.inode = inode, !.ctx = ctx,
                   !.mask = mask,
                   !.res = access(inode_map, AttrOf(fattr, inode, 0), ctx,
                                  inode, mask)]
    /\ UNCHANGED <<inode_map, next_inode, handle_map, next_handle, dirents,
                   ftype, sess, balance, issued, listing, workers, fdstate,
                   ambient, fattr>>

\* the descriptors after a handler whose trace is `sys`: a close in the
\* trace of a read or write is the drop of the File that borrowed the
\* descriptor of the HandleData of `handle`
Borrowed(fd, se, hm, inode, handle, flags, sys) ==
    IF ~se.no_open /\ HandleGet(hm, handle, inode).err = "ok"
    THEN [fd EXCEPT
            ![handle].dropped =
                @ \/ \E k \in DOMAIN sys : sys[k] = "close",
            ![handle].applied =
                IF \E k \in DOMAIN sys :
                      /\ sys[k] = "fcntl"
                      /\ ~(k + 1 = Len(sys) /\ sys[k + 1] = "close")
                THEN flags ELSE @]
    ELSE fd

\* FileSystem::read
Read(inode, handle, flags, fail) ==
    \E r \in {read(sess, inode_map, ftype, handle_map, inode, handle, flags,
                  fail)} :
        /\ handle_map' = r.hm
        /\ fdstate' = Borrowed(fdstate, sess, handle_map, inode, handle,
                                flags, r.sys)
        /\ last' = [NoCall EXCEPT !.op = "read", !.res = r.err,
                                  !.inode = inode, !.handle = handle,
                                  !.arg = flags, !.sys = r.sys]
        /\ UNCHANGED <<inode_map, next_inode, balance, next_handle, dirents,
                       ftype, sess, issued, listing, workers, ambient, fattr>>

\* FileSystem::write
Write(inode, handle, flags, fuse_flags, geo, fail) ==
    \E g \in {[geo EXCEPT !.st_size = AttrOf(fattr, inode, handle).size]} :
    \E r \in {write(sess, inode_map, ftype, handle_map, ambient, inode, handle,
                   flags, fuse_flags, g, fail)} :
        /\ handle_map' = r.hm
        /\ ambient' = r.amb
        /\ fattr' = Host(inode, handle, r,
                         [NewAttr EXCEPT !.size =
                              IF g.offset + g.size > g.st_size
                              THEN g.offset + g.size ELSE g.st_size])
        /\ last' = [NoCall EXCEPT !.op = "write", !.res = r.err,
                                  !.inode = inode, !.handle = handle,
                                  !.arg = flags, !.fuse_flags = fuse_flags,
                                  !.geo = g, !.sys = r.sys, !.ran = r.ran]
        /\ fdstate' = Borrowed(fdstate, sess, handle_map, inode, handle,
                                flags, r.sys)
        /\ UNCHANGED <<inode_map, next_inode, balance, next_handle, dirents,
                       ftype, sess, issued, listing, workers>>

\* FileSystem::fsync
Fsync(inode, handle, fail) ==
    HandleCall("fsync", inode, handle, {},
               fsync(sess, inode_map, ftype, handle_map, inode, handle, fail))

\* FileSystem::fallocate.  The host refuses to collapse a range that reaches
\* the end of the file.
Fallocate(inode, handle, geo, fail) ==
    \E g \in {[geo EXCEPT !.st_size = AttrOf(fattr, inode, handle).size]} :
    \E r \in {[ran |-> Repeat(ambient, Len(x.sys)), err |-> x.err,
                hm |-> x.hm, sys |-> x.sys] :
              x \in {fallocate(sess, inode_map, ftype, handle_map, inode,
                               handle, g, fail)}} :
        /\ (g.mode = "collapse" /\ g.offset + g.size >= g.st_size)
               => fail # "none"
        /\ handle_map' = r.hm
        /\ fattr' = Host(inode, handle, r,
                         [NewAttr EXCEPT !.size =
                              IF g.mode = "collapse" THEN g.st_size - g.size
                              ELSE IF g.offset + g.size > g.st_size
                              THEN g.offset + g.size ELSE g.st_size])
        /\ last' = [NoCall EXCEPT !.op = "fallocate", !.res = r.err,
                                  !.inode = inode, !.handle = handle,
                                  !.geo = g, !.sys = r.sys, !.ran = r.ran,
                                  !.was = AttrOf(fattr, inode, handle)]
        /\ UNCHANGED <<inode_map, next_inode, balance, next_handle, dirents,
                       ftype, sess, issued, listing, workers, fdstate, ambient>>

\* FileSystem::lseek
Lseek(inode, handle, fail) ==
    HandleCall("lseek", inode, handle, {}, lseek(handle_map, inode, handle, fail))

\* FileSystem::flush
Flush(inode, handle, fail) ==
    HandleCall("flush", inode, handle, {},
               flush(sess, handle_map, inode, handle, fail))

\* FileSystem::getattr
Getattr(inode, handle, fail) ==
    HandleCall("getattr", inode, handle, {},
               do_getattr(sess, inode_map, handle_map, inode, handle, fail))

\* FileSystem::setattr that replies with the attributes of the request
Setattr_echoes_request(inode, attr, handle, valid, fail) ==
    \E r \in {setattr(sess, inode_map, ftype, handle_map, ambient, inode, handle,
                     valid, fail)} :
        /\ handle_map' = r.hm
        /\ ambient' = r.amb
        /\ fattr' = Host(inode, handle, r,
                         [attr EXCEPT
                            !.owner = IF "UID" \in valid THEN @
                                      ELSE AttrOf(fattr, inode, handle).owner,
                            !.gid = IF "GID" \in valid THEN @
                                    ELSE AttrOf(fattr, inode, handle).gid,
                            !.mtime = IF "MTIME" \in valid THEN @
                                      ELSE AttrOf(fattr, inode, handle).mtime])
        /\ last' = [NoCall EXCEPT !.op = "setattr", !.res = r.err,
                                  !.inode = inode, !.handle = handle,
                                  !.arg = valid, !.sys = r.sys, !.ran = r.ran,
                                  !.want = attr,
                                  !.was = AttrOf(fattr, inode, handle),
                                  !.attr = IF r.err = "ok" THEN attr ELSE NewAttr]
        /\ UNCHANGED <<inode_map, next_inode, balance, next_handle, dirents,
                       ftype, sess, issued, listing, workers, fdstate>>

\* FileSystem::setattr: fchownat is given the owner of `attr` under UID and
\* utimensat its modification time under MTIME, else each leaves the value
\* alone; the reply carries the attributes that do_getattr reads once the
\* changes are made
Setattr(inode, attr, handle, valid, fail) ==
    \E r \in {setattr(sess, inode_map, ftype, handle_map, ambient, inode, handle,
                     valid, fail)} :
        /\ handle_map' = r.hm
        /\ ambient' = r.amb
        /\ fattr' = Host(inode, handle, r,
                         [attr EXCEPT
                            !.owner = IF "UID" \in valid THEN @
                                      ELSE AttrOf(fattr, inode, handle).owner,
                            !.gid = IF "GID" \in valid THEN @
                                    ELSE AttrOf(fattr, inode, handle).gid,
                            !.mtime = IF "MTIME" \in valid THEN @
                                      ELSE AttrOf(fattr, inode, handle).mtime])
        /\ last' = [NoCall EXCEPT !.op = "setattr", !.res = r.err,
                                  !.inode = inode, !.handle = handle,
                                  !.arg = valid, !.sys = r.sys, !.ran = r.ran,
                                  !.want = attr,
                                  !.was = AttrOf(fattr, inode, handle),
                                  !.attr = IF r.err = "ok"
                                           THEN AttrOf(fattr', inode, handle)
                                           ELSE NewAttr]
        /\ UNCHANGED <<inode_map, next_inode, balance, next_handle, dirents,
                       ftype, sess, issued, listing, workers, fdstate>>

(***************************************************************************)
(* Handlers that create an entry and return it resolved.                   *)
(***************************************************************************)
\* validate_path_component(name): not empty, no separator, not "." or ".."
validate_path_component(name) ==
    /\ name # <<>>
    /\ "/" \notin {name[k] : k \in 1..Len(name)}
    /\ name \notin {DotName, DotDotName}

\* the host creating `name` of type `ty` under directory `pfile`
\* (mkdirat, mknodat, symlinkat, openat(O_CREAT|O_EXCL)): [err, d, ft]
HostCreate(d, ft, pfile, name, ty, fail) ==
    IF ft[pfile] # "dir" THEN [err |-> "ENOTDIR", d |-> d, ft |-> ft]
    ELSE IF Resolve(d, ft, pfile, name) # 0
    THEN [err |-> "EEXIST", d |-> d, ft |-> ft]
    ELSE IF fail = "sys" THEN [err |-> "ENOSPC", d |-> d, ft |-> ft]
    ELSE [err |-> "ok", d |-> (name :> (Len(ft) + 1)) @@ d,
          ft |-> Append(ft, ty)]

\* linkat(fd, "", newdir, newname, AT_EMPTY_PATH): [err, d, ft]
HostLink(d, ft, file, pfile, name, fail) ==
    IF ft[pfile] # "dir" THEN [err |-> "ENOTDIR", d |-> d, ft |-> ft]
    ELSE IF Resolve(d, ft, pfile, name) # 0
    THEN [err |-> "EEXIST", d |-> d, ft |-> ft]
    ELSE IF ft[file] = "dir" \/ fail = "sys"
    THEN [err |-> "EPERM", d |-> d, ft |-> ft]
    ELSE [err |-> "ok", d |-> (name :> file) @@ d, ft |-> ft]

\* the entries of the model's host live in the root directory only
InRoot(map, parent) ==
    parent \in DOMAIN map => map[parent].file = RootFile \/ map[parent].mode # "dir"

\* mkdir, mknod and symlink with the guards of set_creds bound to `_`, which
\* drops them before the creating syscall
make_node_guards_discarded(t, d, ft, amb, parent, name, ty, call, fail) ==
    LET none == [err |-> "ok", inode |-> 0, t |-> t, d |-> d, ft |-> ft,
                 sys |-> <<>>, amb |-> amb, ran |-> <<>>]
        cr == set_creds(amb, fail = "creds")
        h == HostCreate(d, ft, t.map[parent].file, name, ty, fail)
        lk == do_lookup(t, h.d, h.ft, parent, name, fail = "lookup")
    IN  IF ~validate_path_component(name) THEN [none EXCEPT !.err = "EINVAL"]
        ELSE IF parent \notin DOMAIN t.map THEN [none EXCEPT !.err = "NotFound"]
        ELSE IF cr.err # "ok"
        THEN [none EXCEPT !.err = cr.err, !.sys = <<"set_creds">>,
                          !.ran = <<cr.amb>>]
        ELSE IF h.err # "ok"
        THEN [none EXCEPT !.err = h.err, !.sys = <<"set_creds", call>>,
                          !.ran = <<cr.amb, amb>>]
        ELSE [err |-> lk.err, inode |-> lk.inode, t |-> lk.t, d |-> h.d,
              ft |-> h.ft, sys |-> <<"set_creds", call>>, amb |-> amb,
              ran |-> <<cr.amb, amb>>]

\* mkdir, mknod and symlink: validate, switch credentials, create, resolve.
\* The guards of set_creds live until the end of the block that makes the
\* syscall, where the thread's uid and gid are put back.
\* [err, inode, t, d, ft, sys, amb, ran]: `ran` is the thread's identity
\* and capability set after each entry of `sys`, `amb` that at return
make_node(t, d, ft, amb, parent, name, ty, call, fail) ==
    LET none == [err |-> "ok", inode |-> 0, t |-> t, d |-> d, ft |-> ft,
                 sys |-> <<>>, amb |-> amb, ran |-> <<>>]
        cr == set_creds(amb, fail = "creds")
        back == [cr.amb EXCEPT !.uid = amb.uid, !.gid = amb.gid]
        h == HostCreate(d, ft, t.map[parent].file, name, ty, fail)
        lk == do_lookup(t, h.d, h.ft, parent, name, fail = "lookup")
    IN  IF ~validate_path_component(name) THEN [none EXCEPT !.err = "EINVAL"]
        ELSE IF parent \notin DOMAIN t.map THEN [none EXCEPT !.err = "NotFound"]
        ELSE IF cr.err # "ok"
        THEN [none EXCEPT !.err = cr.err, !.sys = <<"set_creds">>,
                          !.amb = cr.amb, !.ran = <<cr.amb>>]
        ELSE IF h.err # "ok"
        THEN [none EXCEPT !.err = h.err, !.sys = <<"set_creds", call>>,
                          !.amb = back, !.ran = <<cr.amb, cr.amb>>]
        ELSE [err |-> lk.err, inode |-> lk.inode, t |-> lk.t, d |-> h.d,
              ft |-> h.ft, sys |-> <<"set_creds", call>>, amb |-> back,
              ran |-> <<cr.amb, cr.amb>>]

\* FileSystem::link: [err, inode, t, d, ft, sys]
link(t, d, ft, inode, newparent, newname, fail) ==
    LET none == [err |-> "ok", inode |-> 0, t |-> t, d |-> d, ft |-> ft,
                 sys |-> <<>>]
        h == HostLink(d, ft, t.map[inode].file, t.map[newparent].file, newname,
                      fail)
        lk == do_lookup(t, h.d, h.ft, newparent, newname, fail = "lookup")
    IN  IF ~validate_path_component(newname) THEN [none EXCEPT !.err = "EINVAL"]
        ELSE IF inode \notin DOMAIN t.map \/ newparent \notin DOMAIN t.map
        THEN [none EXCEPT !.err = "NotFound"]
        ELSE IF h.err # "ok"
        THEN [none EXCEPT !.err = h.err, !.sys = <<"linkat">>]
        ELSE [err |-> lk.err, inode |-> lk.inode, t |-> lk.t, d |-> h.d,
              ft |-> h.ft, sys |-> <<"linkat">>]

\* FileSystem::create that opens an existing entry without open_inode
create_opens_ungated(se, t, d, ft, hm, nh, amb, parent, name, flags, fuse_flags, fail) ==
    LET none == [err |-> "ok", inode |-> 0, t |-> t, d |-> d, ft |-> ft,
                 hm |-> hm, nh |-> nh, handle |-> 0, opts |-> {}, sys |-> <<>>,
                 amb |-> amb, ran |-> <<>>]
        cr == set_creds(amb, fail = "creds")
        back == [cr.amb EXCEPT !.uid = amb.uid, !.gid = amb.gid]
        h == HostCreate(d, ft, t.map[parent].file, name, "reg", fail)
        \* create_file_excl: Some(file), None when the name exists and the
        \* caller did not ask for O_EXCL, or the error
        made == h.err = "ok"
        exists == h.err = "EEXIST" /\ "O_EXCL" \notin flags
        lk == do_lookup(t, h.d, h.ft, parent, name, fail = "lookup")
        kill == se.killpriv_v2 /\ "KILL_SUIDGID" \in fuse_flags
        cap == IF kill THEN drop_cap_fsetid(back, fail = "cap")
               ELSE [err |-> "ok", amb |-> back]
        cr2 == set_creds(cap.amb, fail = "creds2")
        \* the arm ends: uid and gid first, then the capability set
        back2 == [[cr2.amb EXCEPT !.uid = cap.amb.uid, !.gid = cap.amb.gid]
                     EXCEPT !.caps = back.caps]
        o == [err |-> open_file(h.ft, lk.t.map[lk.inode].file, flags, fail),
              sys |-> <<"open">>]
        sys1 == <<"set_creds", "openat">>
        ran1 == <<cr.amb, cr.amb>>
        sys2 == sys1 \o (IF kill THEN <<"drop_cap_fsetid">> ELSE <<>>)
        ran2 == ran1 \o (IF kill THEN <<cap.amb>> ELSE <<>>)
        sys3 == sys2 \o <<"set_creds">> \o o.sys
        ran3 == ran2 \o <<cr2.amb>> \o Repeat(cr2.amb, Len(o.sys))
        after == [none EXCEPT !.t = lk.t, !.d = h.d, !.ft = h.ft]
    IN  IF ~validate_path_component(name) THEN [none EXCEPT !.err = "EINVAL"]
        ELSE IF parent \notin DOMAIN t.map THEN [none EXCEPT !.err = "NotFound"]
        ELSE IF cr.err # "ok"
        THEN [none EXCEPT !.err = cr.err, !.sys = <<"set_creds">>,
                          !.amb = cr.amb, !.ran = <<cr.amb>>]
        ELSE IF ~made /\ ~exists
        THEN [none EXCEPT !.err = h.err, !.sys = sys1, !.amb = back,
                          !.ran = ran1]
        ELSE IF lk.err # "ok"
        THEN [after EXCEPT !.err = lk.err, !.sys = sys1, !.amb = back,
                           !.ran = ran1]
        ELSE IF ~made /\ cap.err # "ok"
        THEN [after EXCEPT !.err = cap.err, !.sys = sys2, !.amb = cap.amb,
                           !.ran = ran2]
        ELSE IF ~made /\ cr2.err # "ok"
        THEN [after EXCEPT !.err = cr2.err, !.sys = sys2 \o <<"set_creds">>,
                           !.amb = [cr2.amb EXCEPT !.caps = back.caps],
                           !.ran = ran2 \o <<cr2.amb>>]
        ELSE IF ~made /\ o.err # "ok"
        THEN [after EXCEPT !.err = o.err, !.sys = sys3, !.amb = back2,
                           !.ran = ran3]
        ELSE [err |-> "ok", inode |-> lk.inode, t |-> lk.t, d |-> h.d,
              ft |-> h.ft,
              hm |-> IF ~se.no_open
                     THEN (nh :> [inode |-> lk.inode,
                                  file |-> lk.t.map[lk.inode].file,
                                  flags |-> flags]) @@ hm
                     ELSE hm,
              nh |-> IF ~se.no_open THEN fetch_add(nh) ELSE nh,
              handle |-> IF ~se.no_open THEN nh ELSE 0,
              opts |-> CASE se.cache_policy \in {"never", "metadata"} ->
                                {"DIRECT_IO"}
                         [] se.cache_policy = "always" -> {"KEEP_CACHE"}
                         [] OTHER -> {},
              sys |-> IF made THEN sys1 ELSE sys3,
              amb |-> IF made THEN back ELSE back2,
              ran |-> IF made THEN ran1 ELSE ran3]

\* FileSystem::create: [err, inode, t, d, ft, hm, nh, handle, opts, sys, amb,
\* ran].  The first guards of set_creds live to the end of the block around
\* create_file_excl; in the fallback the guard of drop_cap_fsetid and the
\* second guards of set_creds live to the end of the match arm.
create(se, t, d, ft, hm, nh, amb, parent, name, flags, fuse_flags, fail) ==
    LET none == [err |-> "ok", inode |-> 0, t |-> t, d |-> d, ft |-> ft,
                 hm |-> hm, nh |-> nh, handle |-> 0, opts |-> {}, sys |-> <<>>,
                 amb |-> amb, ran |-> <<>>]
        cr == set_creds(amb, fail = "creds")
        back == [cr.amb EXCEPT !.uid = amb.uid, !.gid = amb.gid]
        h == HostCreate(d, ft, t.map[parent].file, name, "reg", fail)
        \* create_file_excl: Some(file), None when the name exists and the
        \* caller did not ask for O_EXCL, or the error
        made == h.err = "ok"
        exists == h.err = "EEXIST" /\ "O_EXCL" \notin flags
        lk == do_lookup(t, h.d, h.ft, parent, name, fail = "lookup")
        kill == se.killpriv_v2 /\ "KILL_SUIDGID" \in fuse_flags
        cap == IF kill THEN drop_cap_fsetid(back, fail = "cap")
               ELSE [err |-> "ok", amb |-> back]
        cr2 == set_creds(cap.amb, fail = "creds2")
        \* the arm ends: uid and gid first, then the capability set
        back2 == [[cr2.amb EXCEPT !.uid = cap.amb.uid, !.gid = cap.amb.gid]
                     EXCEPT !.caps = back.caps]
        o == open_inode(se, lk.t.map, h.ft, lk.inode, flags, fail)
        sys1 == <<"set_creds", "openat">>
        ran1 == <<cr.amb, cr.amb>>
        sys2 == sys1 \o (IF kill THEN <<"drop_cap_fsetid">> ELSE <<>>)
        ran2 == ran1 \o (IF kill THEN <<cap.amb>> ELSE <<>>)
        sys3 == sys2 \o <<"set_creds">> \o o.sys
        ran3 == ran2 \o <<cr2.amb>> \o Repeat(cr2.amb, Len(o.sys))
        after == [none EXCEPT !.t = lk.t, !.d = h.d, !.ft = h.ft]
    IN  IF ~validate_path_component(name) THEN [none EXCEPT !.err = "EINVAL"]
        ELSE IF parent \notin DOMAIN t.map THEN [none EXCEPT !.err = "NotFound"]
        ELSE IF cr.err # "ok"
        THEN [none EXCEPT !.err = cr.err, !.sys = <<"set_creds">>,
                          !.amb = cr.amb, !.ran = <<cr.amb>>]
        ELSE IF ~made /\ ~exists
        THEN [none EXCEPT !.err = h.err, !.sys = sys1, !.amb = back,
                          !.ran = ran1]
        ELSE IF lk.err # "ok"
        THEN [after EXCEPT !.err = lk.err, !.sys = sys1, !.amb = back,
                           !.ran = ran1]
        ELSE IF ~made /\ cap.err # "ok"
        THEN [after EXCEPT !.err = cap.err, !.sys = sys2, !.amb = cap.amb,
                           !.ran = ran2]
        ELSE IF ~made /\ cr2.err # "ok"
        THEN [after EXCEPT !.err = cr2.err, !.sys = sys2 \o <<"set_creds">>,
                           !.amb = [cr2.amb EXCEPT !.caps = back.caps],
                           !.ran = ran2 \o <<cr2.amb>>]
        ELSE IF ~made /\ o.err # "ok"
        THEN [after EXCEPT !.err = o.err, !.sys = sys3, !.amb = back2,
                           !.ran = ran3]
        ELSE [err |-> "ok", inode |-> lk.inode, t |-> lk.t, d |-> h.d,
              ft |-> h.ft,
              hm |-> IF ~se.no_open
                     THEN (nh :> [inode |-> lk.inode,
                                  file |-> lk.t.map[lk.inode].file,
                                  flags |-> flags]) @@ hm
                     ELSE hm,
              nh |-> IF ~se.no_open THEN fetch_add(nh) ELSE nh,
              handle |-> IF ~se.no_open THEN nh ELSE 0,
              opts |-> CASE se.cache_policy \in {"never", "metadata"} ->
                                {"DIRECT_IO"}
                         [] se.cache_policy = "always" -> {"KEEP_CACHE"}
                         [] OTHER -> {},
              sys |-> IF made THEN sys1 ELSE sys3,
              amb |-> IF made THEN back ELSE back2,
              ran |-> IF made THEN ran1 ELSE ran3]

\* FileSystem::mkdir
Mkdir(parent, name, fail) ==
    \E r \in {make_node(Table, dirents, ftype, ambient, parent, name, "dir", "mkdirat",
                       fail)} :
        /\ InRoot(inode_map, parent)
        /\ Len(r.ft) <= MaxFiles
        /\ Bounded(r.t)
        /\ SetTable(r.t)
        /\ dirents' = r.d
        /\ ftype' = r.ft
        /\ last' = [NoCall EXCEPT !.op = "mkdir", !.res = r.err,
                                  !.inode = r.inode, !.name = name,
                                  !.sys = r.sys, !.ran = r.ran]
        /\ ambient' = r.amb
        /\ UNCHANGED <<handle_map, next_handle, sess, issued, listing, workers,
                       fdstate, fattr>>

\* FileSystem::mknod
Mknod(parent, name, ty, fail) ==
    \E r \in {make_node(Table, dirents, ftype, ambient, parent, name, ty, "mknodat", fail)} :
        /\ InRoot(inode_map, parent)
        /\ Len(r.ft) <= MaxFiles
        /\ Bounded(r.t)
        /\ SetTable(r.t)
        /\ dirents' = r.d
        /\ ftype' = r.ft
        /\ last' = [NoCall EXCEPT !.op = "mknod", !.res = r.err,
                                  !.inode = r.inode, !.name = name,
                                  !.sys = r.sys, !.ran = r.ran]
        /\ ambient' = r.amb
        /\ UNCHANGED <<handle_map, next_handle, sess, issued, listing, workers,
                       fdstate, fattr>>

\* FileSystem::symlink
Symlink(parent, name, fail) ==
    \E r \in {make_node(Table, dirents, ftype, ambient, parent, name, "lnk", "symlinkat",
                       fail)} :
        /\ InRoot(inode_map, parent)
        /\ Len(r.ft) <= MaxFiles
        /\ Bounded(r.t)
        /\ SetTable(r.t)
        /\ dirents' = r.d
        /\ ftype' = r.ft
        /\ last' = [NoCall EXCEPT !.op = "symlink", !.res = r.err,
                                  !.inode = r.inode, !.name = name,
                                  !.sys = r.sys, !.ran = r.ran]
        /\ ambient' = r.amb
        /\ UNCHANGED <<handle_map, next_handle, sess, issued, listing, workers,
                       fdstate, fattr>>

\* FileSystem::link
Link(inode, newparent, newname, fail) ==
    \E r \in {link(Table, dirents, ftype, inode, newparent, newname, fail)} :
        /\ InRoot(inode_map, newparent)
        /\ Bounded(r.t)
        /\ SetTable(r.t)
        /\ dirents' = r.d
        /\ ftype' = r.ft
        /\ last' = [NoCall EXCEPT !.op = "link", !.res = r.err,
                                  !.inode = r.inode, !.name = newname,
                                  !.sys = r.sys, !.src = inode]
        /\ UNCHANGED <<handle_map, next_handle, sess, issued, listing, workers,
                   fdstate, ambient, fattr>>

\* FileSystem::create
Create(parent, name, flags, fuse_flags, fail) ==
    \E r \in {create(sess, Table, dirents, ftype, handle_map, next_handle, ambient,
                    parent, name, flags, fuse_flags, fail)} :
        /\ InRoot(inode_map, parent)
        /\ Len(r.ft) <= MaxFiles
        /\ next_handle <= MaxHandle
        /\ Bounded(r.t)
        /\ SetTable(r.t)
        /\ dirents' = r.d
        /\ ftype' = r.ft
        /\ handle_map' = r.hm
        /\ next_handle' = r.nh
        /\ issued' = IF r.handle # 0 THEN issued \cup {r.handle} ELSE issued
        /\ last' = [NoCall EXCEPT !.op = "create", !.res = r.err,
                                  !.inode = r.inode, !.handle = r.handle,
                                  !.name = name, !.arg = flags,
                                  !.fuse_flags = fuse_flags, !.sys = r.sys,
                                  !.ran = r.ran, !.opts = r.opts]
        /\ ambient' = r.amb
        /\ UNCHANGED <<sess, listing, workers,
                   fdstate, fattr>>

(***************************************************************************)
(* Handlers that remove or move an entry.                                  *)
(***************************************************************************)
\* do_unlink: unlinkat(parent, name, flags) on the host: [err, d, sys]
do_unlink(t, d, ft, parent, name, flags, fail) ==
    LET none == [err |-> "ok", d |-> d, sys |-> <<>>]
        pfile == t.map[parent].file
        file == Resolve(d, ft, pfile, name)
    IN  IF parent \notin DOMAIN t.map THEN [none EXCEPT !.err = "NotFound"]
        ELSE IF file = 0 \/ fail = "sys"
        THEN [none EXCEPT !.err = "ENOENT", !.sys = <<"unlinkat">>]
        ELSE IF flags = "AT_REMOVEDIR" /\ ft[file] # "dir"
        THEN [none EXCEPT !.err = "ENOTDIR", !.sys = <<"unlinkat">>]
        ELSE IF flags # "AT_REMOVEDIR" /\ ft[file] = "dir"
        THEN [none EXCEPT !.err = "EISDIR", !.sys = <<"unlinkat">>]
        ELSE [err |-> "ok", d |-> Remove(d, name), sys |-> <<"unlinkat">>]

\* FileSystem::rename that checks the old name only
rename_newname_unchecked(t, d, ft, olddir, oldname, newdir, newname, fail) ==
    LET none == [err |-> "ok", d |-> d, sys |-> <<>>]
        file == Resolve(d, ft, t.map[olddir].file, oldname)
    IN  IF ~validate_path_component(oldname) THEN [none EXCEPT !.err = "EINVAL"]
        ELSE IF olddir \notin DOMAIN t.map \/ newdir \notin DOMAIN t.map
        THEN [none EXCEPT !.err = "NotFound"]
        ELSE IF file = 0 \/ ft[t.map[newdir].file] # "dir" \/ fail = "sys"
        THEN [none EXCEPT !.err = "ENOENT", !.sys = <<"renameat2">>]
        ELSE [err |-> "ok", d |-> (newname :> file) @@ Remove(d, oldname),
              sys |-> <<"renameat2">>]

\* FileSystem::rename that hands the two names to renameat2 the other way
\* round
rename_names_swapped(t, d, ft, olddir, oldname, newdir, newname, fail) ==
    LET none == [err |-> "ok", d |-> d, sys |-> <<>>]
        file == Resolve(d, ft, t.map[newdir].file, newname)
    IN  IF ~validate_path_component(oldname) THEN [none EXCEPT !.err = "EINVAL"]
        ELSE IF ~validate_path_component(newname)
        THEN [none EXCEPT !.err = "EINVAL"]
        ELSE IF olddir \notin DOMAIN t.map \/ newdir \notin DOMAIN t.map
        THEN [none EXCEPT !.err = "NotFound"]
        ELSE IF file = 0 \/ ft[t.map[olddir].file] # "dir" \/ fail = "sys"
        THEN [none EXCEPT !.err = "ENOENT", !.sys = <<"renameat2">>]
        ELSE [err |-> "ok", d |-> (oldname :> file) @@ Remove(d, newname),
              sys |-> <<"renameat2">>]

\* FileSystem::rename: [err, d, sys]
rename(t, d, ft, olddir, oldname, newdir, newname, fail) ==
    LET none == [err |-> "ok", d |-> d, sys |-> <<>>]
        file == Resolve(d, ft, t.map[olddir].file, oldname)
    IN  IF ~validate_path_component(oldname) THEN [none EXCEPT !.err = "EINVAL"]
        ELSE IF ~validate_path_component(newname)
        THEN [none EXCEPT !.err = "EINVAL"]
        ELSE IF olddir \notin DOMAIN t.map \/ newdir \notin DOMAIN t.map
        THEN [none EXCEPT !.err = "NotFound"]
        ELSE IF file = 0 \/ ft[t.map[newdir].file] # "dir" \/ fail = "sys"
        THEN [none EXCEPT !.err = "ENOENT", !.sys = <<"renameat2">>]
        ELSE [err |-> "ok", d |-> (newname :> file) @@ Remove(d, oldname),
              sys |-> <<"renameat2">>]

\* FileSystem::rmdir
Rmdir(parent, name, fail) ==
    \E r \in {IF ~validate_path_component(name)
             THEN [err |-> "EINVAL", d |-> dirents, sys |-> <<>>]
             ELSE do_unlink(Table, dirents, ftype, parent, name, "AT_REMOVEDIR",
                            fail)} :
        /\ InRoot(inode_map, parent)
        /\ dirents' = r.d
        /\ last' = [NoCall EXCEPT !.op = "rmdir", !.res = r.err, !.name = name,
                                  !.sys = r.sys]
        /\ UNCHANGED <<inode_map, next_inode, handle_map, next_handle, ftype,
                       sess, balance, issued, listing, workers, fdstate, ambient, fattr>>

\* FileSystem::unlink
Unlink(parent, name, fail) ==
    \E r \in {IF ~validate_path_component(name)
             THEN [err |-> "EINVAL", d |-> dirents, sys |-> <<>>]
             ELSE do_unlink(Table, dirents, ftype, parent, name, "0", fail)} :
        /\ InRoot(inode_map, parent)
        /\ dirents' = r.d
        /\ last' = [NoCall EXCEPT !.op = "unlink", !.res = r.err, !.name = name,
                                  !.sys = r.sys]
        /\ UNCHANGED <<inode_map, next_inode, handle_map, next_handle, ftype,
                       sess, balance, issued, listing, workers, fdstate, ambient, fattr>>

\* FileSystem::rename
Rename(olddir, oldname, newdir, newname, fail) ==
    \E r \in {rename(Table, dirents, ftype, olddir, oldname, newdir, newname,
                    fail)} :
        /\ InRoot(inode_map, olddir)
        /\ InRoot(inode_map, newdir)
        /\ dirents' = r.d
        /\ last' = [NoCall EXCEPT !.op = "rename", !.res = r.err,
                                  !.name = oldname, !.newname = newname,
                                  !.sys = r.sys]
        /\ UNCHANGED <<inode_map, next_inode, handle_map, next_handle, ftype,
                       sess, balance, issued, listing, workers, fdstate, ambient, fattr>>

(***************************************************************************)
(* Worker threads.  A handler that takes the Mutex of HandleData::file     *)
(* runs in steps: each step is one lock operation, one syscall on the      *)
(* shared descriptor, or the code between two of them.  Stateless opendir  *)
(* gives every call a descriptor of its own and is not run in steps.       *)
(***************************************************************************)
\* what the steps of the threads leave alone
Quiet == <<next_handle, dirents, ftype, sess, issued, listing, ambient,
          fattr>>
Tables == <<inode_map, next_inode, balance>>

Holds(w, h) == h \in DOMAIN fdstate /\ fdstate[h].lock = w

\* the guard of get_file_mut() is dropped
Unlocked(w, h) ==
    IF Holds(w, h) THEN [fdstate EXCEPT ![h].lock = 0] ELSE fdstate

\* readdir/readdirplus up to get_dirdata (lines 451-462, 69-74)
RdStart(w, plus, inode, handle, size, offset, script) ==
    \E data \in {get_dirdata(sess, inode_map, ftype, handle_map, handle, inode,
                            {"O_RDONLY"}, "none")} :
        /\ workers[w].pc = "idle"
        /\ ~sess.no_opendir
        /\ LET call == [Idle EXCEPT
                           !.op = IF plus THEN "readdirplus" ELSE "readdir",
                           !.plus = plus, !.inode = inode, !.handle = handle,
                           !.size = size, !.offset = offset, !.script = script]
           IN  workers' = [workers EXCEPT ![w] =
                   IF sess.no_readdir \/ size = 0
                   THEN [call EXCEPT !.pc = "done"]
                   ELSE IF data.err # "ok"
                   THEN [call EXCEPT !.pc = "done", !.res = data.err]
                   ELSE [call EXCEPT !.pc = "lock", !.file = data.data.file,
                                     !.arc = handle]]
        /\ UNCHANGED <<Quiet, Tables, handle_map, last, fdstate, ambient, fattr>>

\* data.get_file_mut() (line 80): the thread waits for the Mutex
RdLock(w) ==
    /\ workers[w].pc = "lock"
    /\ fdstate[workers[w].handle].lock = 0
    /\ fdstate' = [fdstate EXCEPT ![workers[w].handle].lock = w]
    /\ workers' = [workers EXCEPT ![w].pc = "seek"]
    /\ UNCHANGED <<Quiet, Tables, handle_map, last>>

\* lseek64(fd, offset, SEEK_SET) (lines 83-88); a failure returns, which
\* drops the guard
RdSeek(w) ==
    /\ workers[w].pc = "seek"
    /\ \E pos \in {lseek64(AsOff64(workers[w].offset))} :
           /\ IF pos < 0
              THEN /\ workers' = [workers EXCEPT ![w].pc = "done",
                                                 ![w].res = "EINVAL"]
                   /\ fdstate' = Unlocked(w, workers[w].handle)
              ELSE /\ workers' = [workers EXCEPT ![w].pc = "read"]
                   /\ fdstate' = [fdstate EXCEPT ![workers[w].handle].pos = pos]
           /\ UNCHANGED <<Quiet, Tables, handle_map, last>>

\* getdents64(fd, buf, size) at the descriptor's position (lines 90-104)
RdRead(w) ==
    /\ workers[w].pc = "read"
    /\ \E gd \in {getdents64(dirents, ftype, workers[w].file,
                             fdstate[workers[w].handle].pos, workers[w].size)} :
           /\ IF gd.res < 0
              THEN /\ workers' = [workers EXCEPT ![w].pc = "done",
                                                 ![w].res = gd.errno]
                   /\ fdstate' = Unlocked(w, workers[w].handle)
              ELSE /\ workers' = [workers EXCEPT ![w].pc = "unlock",
                                                 ![w].buf = gd.buf]
                   /\ fdstate' = [fdstate EXCEPT
                                     ![workers[w].handle].pos = @ + Len(gd.buf)]
           /\ UNCHANGED <<Quiet, Tables, handle_map, last>>

\* RdUnlock with the guard kept until the handler returns
RdUnlock_late(w) ==
    /\ workers[w].pc = "unlock"
    /\ workers' = [workers EXCEPT ![w].pc = "parse"]
    /\ UNCHANGED <<Quiet, Tables, handle_map, last, fdstate, ambient, fattr>>

\* mem::drop(guard) (line 107)
RdUnlock(w) ==
    /\ workers[w].pc = "unlock"
    /\ fdstate' = Unlocked(w, workers[w].handle)
    /\ workers' = [workers EXCEPT ![w].pc = "parse"]
    /\ UNCHANGED <<Quiet, Tables, handle_map, last>>

\* the record loop (lines 110-179): every record is parsed, resolved and
\* passed to the sink
RdParse(w) ==
    /\ workers[w].pc = "parse"
    /\ \E r \in {readdir_loop(workers[w].buf, 1, 0, Table, dirents, ftype,
                             workers[w].inode, workers[w].plus, workers[w].script,
                             <<>>)} :
           /\ Bounded(r.t)
           /\ SetTable(r.t)
           /\ workers' = [workers EXCEPT ![w].pc = "done", ![w].res = r.res,
                                         ![w].offered = r.offered,
                                         ![w].buf = << >>]
           /\ UNCHANGED <<Quiet, handle_map, last, fdstate, ambient, fattr>>

\* FileSystem::lseek up to handle_map.get (lines 1317-1326)
LsStart(w, inode, handle, offset) ==
    /\ workers[w].pc = "idle"
    /\ LET call == [Idle EXCEPT !.op = "lseek", !.inode = inode,
                                !.handle = handle, !.offset = offset]
       IN  workers' = [workers EXCEPT ![w] =
               IF HandleGet(handle_map, handle, inode).err # "ok"
               THEN [call EXCEPT !.pc = "done", !.res = "EBADF"]
               ELSE [call EXCEPT !.pc = "lslock", !.arc = handle]]
    /\ UNCHANGED <<Quiet, Tables, handle_map, last, fdstate, ambient, fattr>>

\* LsLock without the Mutex: the descriptor is taken as it is
LsLock_unlocked(w) ==
    /\ workers[w].pc = "lslock"
    /\ workers' = [workers EXCEPT ![w].pc = "lsseek"]
    /\ UNCHANGED <<Quiet, Tables, handle_map, last, fdstate, ambient, fattr>>

\* data.get_file_mut() (lines 1328-1329)
LsLock(w) ==
    /\ workers[w].pc = "lslock"
    /\ fdstate[workers[w].handle].lock = 0
    /\ fdstate' = [fdstate EXCEPT ![workers[w].handle].lock = w]
    /\ workers' = [workers EXCEPT ![w].pc = "lsseek"]
    /\ UNCHANGED <<Quiet, Tables, handle_map, last>>

\* libc::lseek(fd, offset, SEEK_SET) and the return, which drops the guard
\* (lines 1331-1343)
LsSeek(w) ==
    /\ workers[w].pc = "lsseek"
    /\ \E pos \in {lseek64(AsOff64(workers[w].offset))},
          h \in {workers[w].handle} :
           /\ workers' = [workers EXCEPT
                             ![w].pc = "done",
                             ![w].res = IF pos < 0 THEN "EINVAL" ELSE "ok"]
           /\ fdstate' = [fdstate EXCEPT
                             ![h].pos = IF pos < 0 THEN @ ELSE pos,
                             ![h].lock = IF @ = w THEN 0 ELSE @]
           /\ UNCHANGED <<Quiet, Tables, handle_map, last>>

\* FileSystem::read and write up to get_data (lines 667, 694)
RwStart(w, op, inode, handle) ==
    \E data \in {get_data(sess, inode_map, ftype, handle_map, handle, inode,
                         {"O_RDWR"}, "none")} :
        /\ workers[w].pc = "idle"
        /\ ~sess.no_open
        /\ op \in {"read", "write"}
        /\ LET call == [Idle EXCEPT !.op = op, !.inode = inode,
                                    !.handle = handle]
           IN  workers' = [workers EXCEPT ![w] =
                   IF data.err # "ok"
                   THEN [call EXCEPT !.pc = "done", !.res = data.err]
                   ELSE [call EXCEPT !.pc = "io", !.file = data.data.file,
                                     !.arc = handle]]
        /\ UNCHANGED <<Quiet, Tables, handle_map, last, fdstate, ambient, fattr>>

\* the rest of read and write: check_fd_flags and the positioned transfer
\* (lines 669-678, 696-718); `during` records who held the Mutex meanwhile
RwIo(w) ==
    /\ workers[w].pc = "io"
    /\ \E r \in {IF workers[w].op = "read"
                THEN read(sess, inode_map, ftype, handle_map, workers[w].inode,
                          workers[w].handle, handle_map[workers[w].handle].flags,
                          "none")
                ELSE write(sess, inode_map, ftype, handle_map, ambient,
                           workers[w].inode, workers[w].handle,
                           handle_map[workers[w].handle].flags, {}, NoRange,
                           "none")} :
           /\ handle_map' = r.hm
           /\ workers' = [workers EXCEPT
                             ![w].pc = "done", ![w].res = r.err,
                             ![w].during = fdstate[workers[w].handle].lock]
           /\ UNCHANGED <<Quiet, Tables, last, fdstate, ambient, fattr>>

\* the flags the HandleData of h records: in the table, or outside it while
\* calls that obtained it before its release still hold it
Recorded(h) ==
    IF h \in DOMAIN handle_map THEN handle_map[h].flags ELSE fdstate[h].kept

\* FileSystem::read and write with the request's flags, up to get_data
\* (lines 667, 694): the call holds an Arc of the HandleData from here on
CfStart(w, op, inode, handle, flags) ==
    \E data \in {get_data(sess, inode_map, ftype, handle_map, handle, inode,
                          {"O_RDWR"}, "none")} :
        /\ ~sess.no_open
        /\ workers[w].pc = "idle"
        /\ workers' =
              [workers EXCEPT ![w] =
                  IF data.err # "ok"
                  THEN [Idle EXCEPT !.pc = "done", !.op = op, !.inode = inode,
                                    !.handle = handle, !.flags = flags,
                                    !.res = data.err]
                  ELSE [Idle EXCEPT !.pc = "cfget", !.op = op, !.inode = inode,
                                    !.handle = handle, !.flags = flags,
                                    !.file = data.data.file, !.arc = handle]]
        /\ UNCHANGED <<Quiet, Tables, handle_map, last, fdstate, ambient, fattr>>

\* check_fd_flags: data.get_flags() and the comparison (lines 51-52)
CfGet(w) ==
    /\ workers[w].pc = "cfget"
    /\ workers' = [workers EXCEPT
                      ![w].pc = IF Recorded(workers[w].arc) # workers[w].flags
                                THEN "cffcntl" ELSE "cfio"]
    /\ UNCHANGED <<Quiet, Tables, handle_map, last, fdstate, ambient, fattr>>

\* check_fd_flags: fcntl(fd, F_SETFL, flags) (lines 53-56).  When it fails
\* the `?` of the caller returns before ManuallyDrop::new (lines 669-676,
\* 696-709), so the File that borrowed the descriptor is dropped.
CfFcntl(w, fail) ==
    /\ workers[w].pc = "cffcntl"
    /\ IF fail
       THEN /\ workers' = [workers EXCEPT ![w].pc = "done", ![w].res = "EINVAL"]
            /\ fdstate' = [fdstate EXCEPT ![workers[w].arc].dropped = TRUE]
       ELSE /\ workers' = [workers EXCEPT ![w].pc = "cfset"]
            /\ fdstate' = [fdstate EXCEPT
                              ![workers[w].arc].applied = workers[w].flags]
    /\ UNCHANGED <<Quiet, Tables, handle_map, last, ambient, fattr>>

\* check_fd_flags: data.set_flags(flags) (line 57)
CfSet(w) ==
    /\ workers[w].pc = "cfset"
    /\ workers' = [workers EXCEPT ![w].pc = "cfio"]
    /\ \E h \in {workers[w].arc} :
          IF h \in DOMAIN handle_map
          THEN /\ handle_map' = [handle_map EXCEPT ![h].flags = workers[w].flags]
               /\ UNCHANGED fdstate
          ELSE /\ fdstate' = [fdstate EXCEPT ![h].kept = workers[w].flags]
               /\ UNCHANGED handle_map
    /\ UNCHANGED <<Quiet, Tables, last, ambient, fattr>>

\* the positioned transfer on the borrowed descriptor (lines 676-677,
\* 709-717) in a session that negotiated neither seal checks nor killpriv
CfIo(w) ==
    /\ workers[w].pc = "cfio"
    /\ ~sess.seal_size /\ ~sess.killpriv_v2
    /\ workers' = [workers EXCEPT
                      ![w].pc = "done",
                      ![w].res = IF \/ fdstate[workers[w].arc].dropped
                                    \/ fdstate[workers[w].arc].closed
                                 THEN "EBADF" ELSE "ok"]
    /\ UNCHANGED <<Quiet, Tables, handle_map, last, fdstate, ambient, fattr>>

\* the handler returns: the reply is sent and the locals die.  The Arc the
\* call held is dropped: when it was the last one of a HandleData that left
\* the table, the HandleData dies and its File closes the descriptor.
Return(w) ==
    /\ workers[w].pc = "done"
    /\ workers' = [workers EXCEPT ![w] = Idle]
    /\ fdstate' =
          LET h == workers[w].arc IN
          IF /\ h # 0
             /\ h \notin DOMAIN handle_map
             /\ \A v \in Workers \ {w} : workers[v].arc # h
          THEN [fdstate EXCEPT ![h] = [NoDescriptor EXCEPT !.closed = TRUE]]
          ELSE fdstate
    /\ UNCHANGED <<Quiet, Tables, handle_map, last, ambient, fattr>>

(***************************************************************************)
(* The reference-counting specification: lookup, forget, batch_forget and  *)
(* the two listing variants on the tables of one session.                  *)
(***************************************************************************)
Requests == {<<>>} \cup {<<p, q>> : p \in Inodes \X {1}, q \in {2, 3} \X Counts}
ListScripts == {sc \in Scripts : sc.at <= 2}

Next ==
    \/ \E p \in {ROOT_ID, 2}, n \in LookupNames, f \in BOOLEAN :
          ((p = ROOT_ID /\ ~f) \/ n = NameA) /\ Lookup(p, n, f)
    \/ \E i \in Inodes, c \in Counts : Forget(i, c)
    \/ \E rq \in Requests : BatchForget(rq)
    \/ \E i \in {ROOT_ID, 2}, f \in {"none", "open"} :
          handle_map = <<>> /\ Opendir(i, {}, f)
    \/ \E h \in Handles, sc \in ListScripts :
          Readdir(ROOT_ID, h, 96, 0, sc, "none")
    \/ \E h \in Handles, sc \in ListScripts :
          Readdirplus(ROOT_ID, h, 96, 0, sc, "none")

Spec == Init /\ [][Next]_vars

(***************************************************************************)
(* Claims on the lookup refcounts.                                         *)
(***************************************************************************)
\* the lookup refcount of ObjectId i in table `map`; 0 when it has no record
RefIn(map, i) == IF i \in DOMAIN map THEN map[i].refcount ELSE 0

\* the count a forget or batch_forget call releases of ObjectId i
RECURSIVE Released(_, _)
Released(reqs, i) ==
    IF reqs = <<>> THEN 0
    ELSE (IF reqs[1][1] = i THEN reqs[1][2] ELSE 0) + Released(Tail(reqs), i)

\* the number of entries of `offered` that resolved to ObjectId i and for
\* which the sink did one of `whats`
RECURSIVE CountOffered(_, _, _)
CountOffered(offered, i, whats) ==
    IF offered = <<>> THEN 0
    ELSE (IF offered[1].inode = i /\ offered[1].sink \in whats THEN 1 ELSE 0)
         + CountOffered(Tail(offered), i, whats)

C1_Positive ==
    \A i \in DOMAIN inode_map : inode_map[i].refcount >= 1

C1_Step ==
    \A i \in Inodes :
        /\ last'.op \in {"forget", "batch_forget"} =>
              IF Released(last'.reqs, i) >= RefIn(inode_map, i)
              THEN i \notin DOMAIN inode_map'
              ELSE /\ i \in DOMAIN inode_map'
                   /\ inode_map'[i].refcount
                        = inode_map[i].refcount - Released(last'.reqs, i)
        /\ i \in DOMAIN inode_map /\ i \notin DOMAIN inode_map' =>
              last'.op \in {"forget", "batch_forget"}

C7_ReaddirKeepsNoReference ==
    [][last'.op = "readdir" => inode_map' = inode_map]_vars

\* readdir offered an entry that had no record before the call, and the
\* sink accepted it
C7_Witness ==
    /\ last.op = "readdir"
    /\ \E k \in 1..Len(last.offered) :
          /\ last.offered[k].sink = "ok"
          /\ last.offered[k].inode \notin DOMAIN inode_map
    /\ \E k \in 1..Len(last.offered) :
          /\ last.offered[k].sink = "ok"
          /\ last.offered[k].inode \in DOMAIN inode_map

C8_Step ==
    last'.op = "readdirplus" =>
        \A i \in Inodes :
            CountOffered(last'.offered, i, {"err"}) = 0 =>
                RefIn(inode_map', i)
                  = RefIn(inode_map, i) + CountOffered(last'.offered, i, {"ok"})

\* C8: in readdirplus every entry the sink accepted with a nonzero count
\* raises the refcount of its object by exactly one, and an entry the sink
\* refused with 0 leaves the refcount of its object as before the call.
C8_ReaddirplusKeepsAccepted == [][C8_Step]_vars

\* readdirplus had one entry accepted and the next one refused with 0
C8_Witness ==
    /\ last.op = "readdirplus"
    /\ Len(last.offered) = 2
    /\ last.offered[1].sink = "ok"
    /\ last.offered[2].sink = "full"

(***************************************************************************)
(* The resolve/release specification: every handler that returns a         *)
(* resolved entry, and the two release handlers, with the history of       *)
(* resolves minus released counts kept per ObjectId.                       *)
(***************************************************************************)
InitResolve ==
    InitOn((NameA :> 2), <<"dir", "reg">>, DefaultSession, TRUE)

NextResolve ==
    \/ \E n \in {NameA, NameB} : Lookup(ROOT_ID, n, FALSE)
    \/ \E f \in {"none", "creds"} : Mkdir(ROOT_ID, NameB, f)
    \/ \E f \in {"none", "lookup"} : Mknod(ROOT_ID, NameB, "blk", f)
    \/ \E n \in {NameB, DotName} : Symlink(ROOT_ID, n, "none")
    \/ \E f \in {"none", "sys"} : Link(2, ROOT_ID, NameB, f)
    \/ \E n \in {NameA, NameB}, fl \in {{}, {"O_EXCL"}} :
          handle_map = <<>> /\ Create(ROOT_ID, n, fl, {}, "none")
    \/ \E i \in Inodes \ {ROOT_ID}, c \in Counts : Forget(i, c)
    \/ \E i \in {2, 3} : BatchForget(<< <<i, 1>>, <<i + 1, 1>> >>)

SpecResolve == InitResolve /\ [][NextResolve]_vars

C2_Balance ==
    /\ DOMAIN inode_map \subseteq DOMAIN balance
    /\ \A i \in DOMAIN balance : i \in DOMAIN inode_map <=> balance[i] > 0

C2_Step ==
    \A i \in DOMAIN balance :
        /\ i \in DOMAIN inode_map /\ i \notin DOMAIN inode_map' =>
              balance[i] > 0 /\ balance'[i] <= 0
        /\ i \notin DOMAIN inode_map => i \notin DOMAIN inode_map'

\* C2: for every ObjectId, after any sequence of lookup, create, mkdir,
\* mknod, symlink, link, forget and batch_forget calls, the record is in the
\* Object Table iff the resolves of that ObjectId so far exceed the counts
\* released of it so far; the record leaves the table in the step in which
\* that difference stops being positive, and never a second time.
C2_PresentIffResolvesExceedReleases == [](C2_Balance) /\ [][C2_Step]_vars

\* a created entry was resolved twice and is in the table, while another
\* ObjectId was released by more than its resolves and is gone
C2_Witness ==
    /\ Len(ftype) = MaxFiles
    /\ \E i \in DOMAIN balance : balance[i] < 0 /\ i \notin DOMAIN inode_map
    /\ \E j \in DOMAIN inode_map :
          j # ROOT_ID /\ inode_map[j].file = MaxFiles /\ balance[j] = 2

(***************************************************************************)
(* The listing specification: one caller lists the root directory of a     *)
(* host with three entries by chained readdir or readdirplus calls.  The   *)
(* sink reports a full reply buffer only after it accepted an entry.       *)
(***************************************************************************)
ListLayout == (NameA :> 2) @@ (NameB :> 3) @@ (NameC :> 4)
ListTypes == <<"dir", "reg", "reg", "blk">>
ListSizes == {10, 24, 72, 120}
FullScripts == {sc \in Scripts : sc.at = 0 \/ (sc.at > 1 /\ sc.what = "full")}

InitList == InitOn(ListLayout, ListTypes, DefaultSession, FALSE)

NextList ==
    \/ \E n \in EntryNames : Lookup(ROOT_ID, n, FALSE)
    \/ Opendir(ROOT_ID, {}, "none")
    \/ \E p \in BOOLEAN, sz \in ListSizes, sc \in FullScripts :
          ListNext(p, 1, sz, sc)

SpecList == InitList /\ [][NextList]_vars

\* C3: when a listing chained from cookie 0 has ended with a call that
\* delivered no entry, and no bulk read failed, every entry of the directory
\* other than "." and ".." was accepted by the sink exactly once.
C3_ListingDeliversEveryEntryOnce ==
    listing.done /\ ~listing.failed =>
        \A n \in DOMAIN dirents :
            Cardinality({k \in 1..Len(listing.got) : listing.got[k] = n}) = 1

(***************************************************************************)
(* The enumeration specification: readdir and readdirplus calls with any   *)
(* cookie, reply size and sink behaviour on the same host.                 *)
(***************************************************************************)
DirSizes == {72, 120}
DirOffsets == {0, 2}
ErrScripts == {sc \in Scripts : sc.what # "full"}

NextDir ==
    \/ \E n \in {NameA, NameB} : Lookup(ROOT_ID, n, FALSE)
    \/ handle_map = <<>> /\ Opendir(ROOT_ID, {}, "none")
    \/ \E h \in Handles, sz \in DirSizes, o \in DirOffsets, sc \in ErrScripts :
          Readdir(ROOT_ID, h, sz, o, sc, "none")
    \/ \E h \in Handles, sz \in DirSizes, o \in DirOffsets, sc \in ErrScripts :
          Readdirplus(ROOT_ID, h, sz, o, sc, "none")

SpecDir == InitList /\ [][NextDir]_vars

IsListing == last.op \in {"readdir", "readdirplus"}
SinkFailed(e) == e.sink \in {"err", "lkerr"}

C6_FirstSinkErrorIsReturned ==
    IsListing =>
        \A k \in 1..Len(last.offered) :
            SinkFailed(last.offered[k]) /\ Accepted(last.offered) = <<>> =>
                last.res = last.offered[k].err

(***************************************************************************)
(* The handle specification: handles are opened, used with matching and    *)
(* with foreign (handle, object) pairs, released and destroyed.            *)
(***************************************************************************)
StatelessConfig == [DefaultConfig EXCEPT !.no_open = TRUE, !.no_opendir = TRUE]

HandleSessions ==
    {DefaultSession, [DefaultSession EXCEPT !.no_readdir = TRUE],
     [DefaultSession EXCEPT !.cfg = StatelessConfig]}

InitHandle ==
    \E se \in HandleSessions : InitOn((NameA :> 2), <<"dir", "reg">>, se, FALSE)

NextHandle ==
    \/ last.op = "none" /\ FsInit({"ZERO_MESSAGE_OPEN", "ZERO_MESSAGE_OPENDIR"})
    \/ Lookup(ROOT_ID, NameA, FALSE)
    \/ Open(2, {"O_RDONLY"}, {}, "none")
    \/ Opendir(ROOT_ID, {}, "none")
    \/ Create(ROOT_ID, NameA, {"O_RDONLY"}, {}, "none")
    \/ \E i \in {ROOT_ID, 2}, h \in Handles : Release(i, h)
    \/ \E h \in Handles : Releasedir(ROOT_ID, h)
    \/ Destroy
    \/ \E h \in Handles, fl \in {{"O_RDONLY"}, {"O_RDWR"}} : Read(2, h, fl, "none")
    \/ \E h \in Handles : Write(2, h, {"O_RDWR"}, {}, NoRange, "none")
    \/ \E h \in Handles : Fsync(2, h, "none")
    \/ \E h \in Handles : Fallocate(2, h, NoRange, "none")
    \/ \E h \in Handles : Lseek(2, h, "none")
    \/ \E h \in Handles : Flush(2, h, "none")
    \/ \E h \in Handles \cup {0} : Getattr(2, h, "none")
    \/ \E h \in Handles \cup {0} : Setattr(2, NewAttr, h, {"MODE"}, "none")
    \/ \E h \in Handles, sz \in {0, 24} :
          Readdir(ROOT_ID, h, sz, 0, [at |-> 0, what |-> "ok"], "none")
    \/ \E h \in Handles, sz \in {0, 24} :
          Readdirplus(ROOT_ID, h, sz, 0, [at |-> 0, what |-> "ok"], "none")

SpecHandle == InitHandle /\ [][NextHandle]_vars

Opens == {"open", "opendir", "create"}

C9_Step ==
    /\ next_handle' >= next_handle
    /\ last'.op \in Opens /\ last'.res = "ok" /\ last'.handle # 0 =>
          /\ last'.handle \notin issued
          /\ last'.handle \notin DOMAIN handle_map
          /\ last'.handle \in DOMAIN handle_map'
          /\ next_handle' > last'.handle

HandleOps ==
    {"read", "write", "fsync", "fallocate", "lseek", "flush", "readdir",
     "readdirplus", "getattr", "setattr", "release", "releasedir"}

\* the call of the step is a handle-taking one, made with stateful open and
\* opendir, whose handle is not registered to its object
ForeignHandle ==
    /\ last'.op \in HandleOps
    /\ ~sess.no_open /\ ~sess.no_opendir
    /\ last'.handle # 0
    /\ HandleGet(handle_map, last'.handle, last'.inode).err # "ok"

NothingDone ==
    /\ last'.sys = <<>>
    /\ last'.offered = <<>>
    /\ handle_map' = handle_map
    /\ inode_map' = inode_map

EmptyListing ==
    /\ last'.op \in {"readdir", "readdirplus"}
    /\ last'.arg = 0 \/ sess.no_readdir

\* C10 as stated: with stateful open and opendir, every handle-taking call
\* whose handle is not registered to its object fails, performs no I/O and
\* changes neither table nor any recorded flags.
C10_ForeignHandleFails ==
    [][ForeignHandle => last'.res # "ok" /\ NothingDone]_vars

\* C10, amended: such a call performs no I/O and changes neither table nor
\* any recorded flags, and it fails unless it is a readdir or readdirplus
\* with reply size 0 or with listing disabled, which returns an empty reply.
C10_ForeignHandleDoesNothing ==
    [][ForeignHandle =>
          /\ NothingDone
          /\ last'.res = "ok" <=> EmptyListing]_vars

\* a read with a handle that is registered to another object has failed,
\* and that handle is still registered with its flags
C10_Witness ==
    /\ last.op = "read"
    /\ last.res = "EBADF"
    /\ last.handle \in DOMAIN handle_map
    /\ handle_map[last.handle].inode # last.inode
    /\ handle_map[last.handle].flags # last.arg

(***************************************************************************)
(* The node-type gate specification: a device node is created by mknod     *)
(* and every handler that reaches open_inode is called on it.              *)
(***************************************************************************)
GateSessions ==
    {DefaultSession,
     [DefaultSession EXCEPT !.seal_size = TRUE],
     [DefaultSession EXCEPT !.cfg = [StatelessConfig EXCEPT !.killpriv_v2 = TRUE]]}

InitGate ==
    \E se \in GateSessions : InitOn((NameA :> 2), <<"dir", "reg">>, se, FALSE)

NextGate ==
    \/ \E cap \in {{"ZERO_MESSAGE_OPEN", "ZERO_MESSAGE_OPENDIR"},
                   {"HANDLE_KILLPRIV_V2"}} : last.op = "none" /\ FsInit(cap)
    \/ \E n \in {NameA, NameB} : Lookup(ROOT_ID, n, FALSE)
    \/ Mknod(ROOT_ID, NameB, "blk", "none")
    \/ \E i \in {2, 3}, ff \in {{}, {"KILL_SUIDGID"}}, f \in {"none", "cap"} :
          Open(i, {"O_RDWR"}, ff, f)
    \/ \E i \in {2, 3} : Opendir(i, {}, "none")
    \/ \E n \in {NameA, NameB}, fl \in {{}, {"O_EXCL"}},
          f \in {"none", "creds2"} : Create(ROOT_ID, n, fl, {}, f)
    \/ \E i \in {2, 3}, v \in {{"SIZE"}, {"MODE", "SIZE"}, {"MODE"}},
          f \in {"none", "chmod"} : Setattr(i, OldAttr, 0, v, f)
    \/ \E i \in {2, 3}, h \in {1} : Read(i, h, {"O_RDONLY"}, "none")
    \/ \E i \in {2, 3}, h \in {1} : Write(i, h, {"O_RDWR"}, {}, NoRange, "none")

SpecGate == InitGate /\ [][NextGate]_vars

\* the object of ObjectId i is cached with a mode that is neither a regular
\* file nor a directory
Unsafe(i) == i \in DOMAIN inode_map /\ ~is_safe_inode(inode_map[i].mode)

\* the call of the step is handled through open_inode on an unsafe object
GatedCall ==
    \/ last'.op \in {"open", "opendir"} /\ Unsafe(last'.inode)
    \/ /\ last'.op = "create"
       /\ ROOT_ID \in DOMAIN inode_map
       /\ last'.name \in DOMAIN dirents
       /\ ~is_safe_inode(ftype[dirents[last'.name]])
       /\ "O_EXCL" \notin last'.arg
    \/ /\ last'.op = "setattr"
       /\ Unsafe(last'.inode)
       /\ "SIZE" \in last'.arg
       /\ last'.handle = 0 \/ sess.no_open
    \/ last'.op \in {"read", "write"} /\ sess.no_open /\ Unsafe(last'.inode)

NothingOpened ==
    /\ last'.res # "ok"
    /\ "open" \notin {last'.sys[k] : k \in 1..Len(last'.sys)}
    /\ next_handle' = next_handle
    /\ handle_map' = handle_map

\* the handler failed before it reached open_inode
FailedEarlier ==
    \/ last'.op = "open" /\ sess.no_open /\ last'.res = "ENOSYS"
    \/ last'.op = "opendir" /\ sess.no_opendir /\ last'.res = "ENOSYS"
    \/ /\ last'.res = "EPERM"
       /\ \/ last'.op = "setattr" /\ sess.seal_size
          \/ /\ last'.sys # <<>>
             /\ last'.sys[Len(last'.sys)] \in
                   {"drop_cap_fsetid", "set_creds", "fchmodat", "fchownat"}

\* C4 as stated: every call through open_inode on an unsafe object fails
\* with EBADF, opens no descriptor, allocates no HandleId and leaves the
\* Handle Table unchanged.
C4_UnsafeOpenIsEBADF ==
    [][GatedCall => last'.res = "EBADF" /\ NothingOpened]_vars

\* C4, amended: every such call fails, opens no descriptor, allocates no
\* HandleId and leaves the Handle Table unchanged; its error is EBADF unless
\* the handler failed before it reached open_inode (stateless open or
\* opendir, a failed capability drop or credential switch, size sealing, a
\* failed earlier sub-mutation of setattr).
C4_UnsafeOpenFails ==
    [][GatedCall => NothingOpened /\ (last'.res = "EBADF" \/ FailedEarlier)]_vars

\* open of a device node that mknod has just created failed with EBADF
C4_Witness ==
    /\ last.op = "open"
    /\ last.res = "EBADF"
    /\ last.inode \in DOMAIN inode_map
    /\ inode_map[last.inode].mode = "blk"
    /\ inode_map[last.inode].refcount = 1
    /\ handle_map = << >>
    /\ next_handle = 1

(***************************************************************************)
(* The Handle Table specification: handles are opened, released and        *)
(* destroyed while objects are resolved and forgotten, and some calls fail.*)
(***************************************************************************)
TableSessions == {DefaultSession, [DefaultSession EXCEPT !.cfg = StatelessConfig]}

InitTable ==
    \E se \in TableSessions : InitOn((NameA :> 2), <<"dir", "reg">>, se, FALSE)

NextTable ==
    \/ \E cap \in {{"ZERO_MESSAGE_OPEN"}, {"ZERO_MESSAGE_OPENDIR"}} :
          last.op = "none" /\ FsInit(cap)
    \/ \E n \in {NameA, NameB} : Lookup(ROOT_ID, n, FALSE)
    \/ \E i \in {2, 3}, f \in {"none", "open"} : Open(i, {"O_RDONLY"}, {}, f)
    \/ \E f \in {"none", "open"} : Opendir(ROOT_ID, {}, f)
    \/ \E n \in {NameA, SlashName}, fl \in {{}, {"O_EXCL"}} :
          Create(ROOT_ID, n, fl, {}, "none")
    \/ \E i \in {ROOT_ID, 2}, h \in 1..(MaxHandle + 1) : Release(i, h)
    \/ \E i \in {ROOT_ID, 2}, h \in 1..(MaxHandle + 1) : Releasedir(i, h)
    \/ Destroy
    \/ \E i \in {ROOT_ID, 2} : Forget(i, 1)
    \/ BatchForget(<< <<2, 1>>, <<ROOT_ID, 1>> >>)

SpecTable == InitTable /\ [][NextTable]_vars

Releases == {"release", "releasedir"}

\* the HandleIds that resolve after the step, told from the call's result
LiveAfter ==
    IF last'.op \in Opens /\ last'.res = "ok" /\ last'.handle # 0
    THEN DOMAIN handle_map \cup {last'.handle}
    ELSE IF last'.op \in Releases /\ last'.res = "ok"
    THEN DOMAIN handle_map \ {last'.handle}
    ELSE IF last'.op = "destroy" THEN {}
    ELSE DOMAIN handle_map

C11_Step ==
    /\ DOMAIN handle_map' = LiveAfter
    /\ \A h \in DOMAIN handle_map \cap DOMAIN handle_map' :
          handle_map'[h] = handle_map[h]
    /\ last'.op \in Opens /\ last'.res = "ok" /\ last'.handle # 0 =>
          /\ last'.handle \notin DOMAIN handle_map
          /\ handle_map'[last'.handle].inode = last'.inode
    /\ last'.op \in Releases /\ last'.handle \notin DOMAIN handle_map =>
          /\ last'.res # "ok"
          /\ handle_map' = handle_map
          /\ inode_map' = inode_map
          /\ last'.sys = <<>>
    /\ last'.op \in Releases /\ last'.res = "ok" =>
          last'.handle \in DOMAIN handle_map

\* C11: a HandleId is in the Handle Table iff a successful open, opendir or
\* create returned it and no successful release or releasedir and no destroy
\* took it out since: every step changes the set of registered HandleIds
\* exactly as its call's result says (forget, batch_forget and failed calls
\* leave it alone), only returned HandleIds are registered, and release or
\* releasedir of an unregistered HandleId fails and changes nothing.
C11_HandleRegisteredIffOpen ==
    [](DOMAIN handle_map \subseteq issued) /\ [][C11_Step]_vars

\* a release of an unregistered HandleId failed while another handle, whose
\* object has been forgotten, is still registered
C11_Witness ==
    /\ last.op = "release"
    /\ last.res = "EBADF"
    /\ last.handle \notin DOMAIN handle_map
    /\ \E h \in DOMAIN handle_map : handle_map[h].inode \notin DOMAIN inode_map

\* the call of the step returned not-supported and did nothing
NotSupported ==
    /\ last'.res = "ENOSYS"
    /\ last'.sys = <<>>
    /\ next_handle' = next_handle
    /\ handle_map' = handle_map
    /\ inode_map' = inode_map
    /\ issued' = issued

C12_Step ==
    /\ sess.no_open /\ last'.op \in {"open", "release"} => NotSupported
    /\ sess.no_opendir /\ last'.op \in {"opendir", "releasedir"} => NotSupported
    /\ last'.op = "open" /\ last'.res = "ENOSYS" => last'.handle = 0
    /\ last'.op = "opendir" /\ last'.res = "ENOSYS" => last'.handle = 0
    /\ sess.no_open /\ last'.op = "create" =>
          /\ last'.handle = 0
          /\ next_handle' = next_handle
          /\ handle_map' = handle_map
          /\ issued' = issued

\* C12: with stateless open negotiated, open and release return ENOSYS, and
\* with stateless opendir negotiated, opendir and releasedir return ENOSYS;
\* such a call makes no syscall, allocates no HandleId and changes no table,
\* and a create under stateless open returns no handle and registers none.
C12_StatelessNotSupported == [][C12_Step]_vars

\* under stateless open (opendir still stateful) a create of an existing
\* name opened the file and returned its object without a handle
C12_Witness ==
    /\ sess.no_open /\ ~sess.no_opendir
    /\ last.op = "create"
    /\ last.res = "ok"
    /\ last.handle = 0
    /\ last.inode \in DOMAIN inode_map
    /\ "open" \in {last.sys[k] : k \in 1..Len(last.sys)}
    /\ handle_map = << >>
    /\ next_handle = 1

(***************************************************************************)
(* The threads specification: worker threads run readdir, readdirplus,     *)
(* lseek, read and write on one directory handle and one file handle.      *)
(***************************************************************************)
NegOffset == 2 ^ (OffBits - 1)

InitConc ==
    InitOn((NameA :> 2) @@ (NameB :> 3), <<"dir", "reg", "reg">>,
           DefaultSession, FALSE)

\* the readdir and readdirplus calls the threads make: <<plus, size, cookie>>
ConcCalls ==
    {<<FALSE, 72, 0>>, <<TRUE, 72, 3>>, <<FALSE, 10, 0>>, <<FALSE, 72, NegOffset>>}

\* the threads serve requests on the directory handle 1 and the file
\* handle 2 once both are open
Opened == DOMAIN handle_map = {1, 2}

NextConc ==
    \/ next_inode = 2 /\ Lookup(ROOT_ID, NameA, FALSE)
    \/ next_inode = 3 /\ handle_map = << >> /\ Opendir(ROOT_ID, {}, "none")
    \/ next_handle = 2 /\ Open(2, {"O_RDWR"}, {}, "none")
    \/ \E w \in Workers, c \in ConcCalls :
          /\ Opened
          /\ RdStart(w, c[1], ROOT_ID, 1, c[2], c[3], [at |-> 0, what |-> "ok"])
    \/ \E w \in Workers : RdLock(w)
    \/ \E w \in Workers : RdSeek(w)
    \/ \E w \in Workers : RdRead(w)
    \/ \E w \in Workers : RdUnlock(w)
    \/ \E w \in Workers : RdParse(w)
    \/ \E w \in Workers, h \in {1, 2} :
          Opened /\ LsStart(w, IF h = 1 THEN ROOT_ID ELSE 2, h, 1)
    \/ \E w \in Workers : LsLock(w)
    \/ \E w \in Workers : LsSeek(w)
    \/ \E w \in Workers : Opened /\ RwStart(w, "write", 2, 2)
    \/ \E w \in Workers : RwIo(w)
    \/ \E w \in Workers : Return(w)

SpecConc == InitConc /\ [][NextConc]_vars

\* the records that follow cookie `offset` in the directory of `file`, as
\* far as they fit into `size` bytes
RecordsAfter(file, offset, size) ==
    Fitting(DirStream(dirents, ftype, file), offset, size)

\* C13: between the reposition and the bulk read of a readdir or
\* readdirplus call the descriptor of its handle stays at the call's own
\* cookie, whatever other readdir, readdirplus and lseek calls run on the
\* same handle, and the buffer the call parses holds the records that follow
\* its cookie.
C13_RepositionAndReadAtomic ==
    \A w \in Workers :
        /\ workers[w].pc = "read" =>
              /\ Holds(w, workers[w].handle)
              /\ fdstate[workers[w].handle].pos = workers[w].offset
        /\ workers[w].pc \in {"unlock", "parse"} =>
              workers[w].buf = RecordsAfter(workers[w].file, workers[w].offset,
                                            workers[w].size)

\* a readdir call has repositioned the descriptor to its cookie and is about
\* to read, while another thread waits for the same handle with a call that
\* would move the descriptor elsewhere
C13_Witness ==
    \E w \in Workers, v \in Workers :
        /\ workers[w].pc = "read"
        /\ workers[w].offset = 3
        /\ workers[v].pc \in {"lock", "lslock"}
        /\ workers[v].handle = workers[w].handle
        /\ workers[v].offset # workers[w].offset
        /\ fdstate[workers[w].handle].pos = 3

\* C14: a thread holds the position lock of a handle only between taking it
\* in readdir/readdirplus and the end of the bulk read, or around the seek
\* of an explicit lseek: not while records are parsed, resolved or passed to
\* the sink, not after the handler has finished (whatever its result), and
\* never in read or write.
C14_LockOnlyAroundSeekAndRead ==
    \A w \in Workers :
        /\ \A h \in DOMAIN fdstate :
              Holds(w, h) =>
                  /\ workers[w].handle = h
                  /\ workers[w].op \in {"readdir", "readdirplus", "lseek"}
                  /\ workers[w].pc \in {"seek", "read", "unlock", "lsseek"}
        /\ workers[w].pc \in {"seek", "read", "unlock", "lsseek"} =>
              Holds(w, workers[w].handle)

\* a write on the file handle completed while another thread held the
\* position lock of that handle, and a readdir whose bulk read failed has
\* finished with the lock of its handle free
C14_Witness ==
    \E w \in Workers, v \in Workers :
        /\ workers[w].op = "write"
        /\ workers[w].pc = "done"
        /\ workers[w].res = "ok"
        /\ workers[w].during = v
        /\ v # w
        /\ workers[v].op = "readdir"
        /\ workers[v].pc = "done"
        /\ workers[v].res = "EINVAL"
        /\ workers[v].offset = 0
        /\ fdstate[1].lock = 0

(***************************************************************************)
(* The name specification: the handlers that take a name for an entry to   *)
(* create, move or remove, called with well-formed and malformed names     *)
(* under a known and an unknown parent.                                    *)
(***************************************************************************)
BadNames == {<<>>, SlashName, DotName, DotDotName}

\* the callers create at most one entry
NextName ==
    \/ \E n \in {NameA, DotName, DotDotName, SlashName} :
          Lookup(ROOT_ID, n, FALSE)
    \/ \E p \in {ROOT_ID, 4}, n \in BadNames \cup {NameA} :
          Len(ftype) = 2 /\ Mkdir(p, n, "none")
    \/ \E n \in BadNames \cup {NameA} : Len(ftype) = 2 /\ Mknod(ROOT_ID, n, "reg", "none")
    \/ \E n \in BadNames \cup {NameA} : Symlink(ROOT_ID, n, "creds")
    \/ \E n \in BadNames \cup {NameB} : Link(2, ROOT_ID, n, "none")
    \/ \E n \in BadNames \cup {NameA} :
          Len(ftype) = 2 /\ handle_map = <<>> /\ Create(ROOT_ID, n, {}, {}, "none")
    \/ \E n \in BadNames \cup {NameA}, m \in BadNames \cup {NameB} :
          Rename(ROOT_ID, n, ROOT_ID, m, "none")
    \/ \E n \in BadNames \cup {NameA} : Unlink(ROOT_ID, n, "none")
    \/ \E p \in {ROOT_ID, 4}, n \in BadNames \cup {NameA} : Rmdir(p, n, "none")

SpecName == InitResolve /\ [][NextName]_vars

NameCalls ==
    {"mkdir", "mknod", "create", "symlink", "link", "rename", "unlink", "rmdir"}

\* a name that is empty, holds a path separator, or is "." or ".."
Malformed(n) ==
    \/ Len(n) = 0
    \/ \E k \in 1..Len(n) : n[k] = "/"
    \/ n = <<".">>
    \/ n = <<".", ".">>

\* C15: mkdir, mknod, create, symlink, link (new name), rename (old and new
\* name), unlink and rmdir answer a name that is empty, holds a path
\* separator or is "." or ".." with EINVAL before any Object Table lookup,
\* credential switch or syscall, and leave all state unchanged.
C15_Step ==
    (/\ last'.op \in NameCalls
     /\ \/ Malformed(last'.name)
        \/ last'.op = "rename" /\ Malformed(last'.newname))
    => /\ last'.res = "EINVAL"
       /\ last'.sys = <<>>
       /\ UNCHANGED <<inode_map, next_inode, handle_map, next_handle, dirents,
                      ftype, sess, balance, issued, listing, workers, fdstate, ambient, fattr>>

C15_MalformedNameIsEINVAL == [][C15_Step]_vars

\* a rename of an existing entry to a name with a separator was rejected
C15_Witness ==
    /\ last.op = "rename"
    /\ last.name \in DOMAIN dirents
    /\ last.newname = SlashName
    /\ last.res = "EINVAL"

\* C16: lookup answers every name that holds a path separator with EINVAL
\* before the resolve step, changing no reference count, and hands every
\* other name, "." and ".." included, to the resolve step unchanged.
C16_Step ==
    last'.op = "lookup" =>
        IF \E k \in 1..Len(last'.name) : last'.name[k] = "/"
        THEN /\ last'.res = "EINVAL"
             /\ UNCHANGED <<inode_map, next_inode, balance>>
        ELSE \E r \in {do_lookup(Table, dirents, ftype, ROOT_ID, last'.name,
                                 FALSE)} :
                /\ last'.res = r.err
                /\ last'.inode = r.inode
                /\ inode_map' = r.t.map
                /\ next_inode' = r.t.nxt

C16_LookupRejectsSeparatorOnly == [][C16_Step]_vars

\* ".." was resolved to the root, which took a reference
C16_Witness ==
    /\ last.op = "lookup"
    /\ last.name = DotDotName
    /\ last.res = "ok"
    /\ last.inode = ROOT_ID
    /\ inode_map[ROOT_ID].refcount > 1

(***************************************************************************)
(* The privilege specification: sessions with and without killpriv_v2 and  *)
(* size sealing; entries are created, opened, written, resized and         *)
(* changed, with failures at each step of the handlers.                    *)
(***************************************************************************)
InitPriv ==
    \E k \in BOOLEAN, s \in BOOLEAN :
        InitOn((NameA :> 2), <<"dir", "reg">>,
               [DefaultSession EXCEPT !.killpriv_v2 = k, !.seal_size = s], FALSE)

\* writes and allocations end inside, at and past the end of a file of two
\* bytes
NextPriv ==
    \/ Lookup(ROOT_ID, NameA, FALSE)
    \/ \E n \in {NameA, NameB}, f \in {"none", "creds", "sys", "lookup"} :
          Len(ftype) = 2 /\ Mkdir(ROOT_ID, n, f)
    \/ \E f \in {"none", "creds"} :
          Len(ftype) = 2 /\ Mknod(ROOT_ID, NameB, "reg", f)
    \/ \E f \in {"none", "sys"} : Len(ftype) = 2 /\ Symlink(ROOT_ID, NameB, f)
    \/ \E n \in {NameA, NameB}, ff \in {{}, {"KILL_SUIDGID"}},
          f \in {"none", "creds", "lookup", "cap", "creds2", "open"} :
          /\ Len(ftype) = 2 \/ (n \in DOMAIN dirents /\ n = NameB /\ f = "none")
          /\ handle_map = <<>>
          /\ Create(ROOT_ID, n, {}, ff, f)
    \/ \E ff \in {{}, {"KILL_SUIDGID"}}, f \in {"none", "cap", "open"} :
          handle_map = <<>> /\ Open(2, {"O_RDWR"}, ff, f)
    \/ \E ff \in {{}, {"WRITE_KILL_PRIV"}}, o \in 0..2,
          f \in {"none", "cap", "io"} :
          Write(2, 1, {"O_RDWR"}, ff,
                [NoRange EXCEPT !.offset = o, !.size = 1], f)
    \/ \E o \in 0..2, m \in {"allocate", "collapse"}, f \in {"none", "io"} :
          Fallocate(2, 1, [NoRange EXCEPT !.offset = o, !.size = 1, !.mode = m],
                    f)
    \/ \E h \in {0, 1},
          v \in {{"MODE"}, {"SIZE"}, {"SIZE", "KILL_SUIDGID"},
                 {"MODE", "UID", "SIZE", "MTIME", "KILL_SUIDGID"}},
          f \in {"none", "chown", "cap", "truncate"} :
          Setattr(2, OldAttr, h, v, f)

SpecPriv == InitPriv /\ [][NextPriv]_vars

\* C17: in every mkdir, mknod, symlink and create the creating syscall (and
\* the open of the create fallback) runs with the thread's effective uid and
\* gid switched to the requester's, and at return, on success and on every
\* error path, the effective uid and gid are what they were before the call.
C17_Step ==
    last'.op \in {"mkdir", "mknod", "symlink", "create"} =>
        /\ \A k \in 1..Len(last'.sys) :
              last'.sys[k] \in {"mkdirat", "mknodat", "symlinkat", "openat",
                                "open"}
              => /\ last'.ran[k].uid = "requester"
                 /\ last'.ran[k].gid = "requester"
        /\ ambient'.uid = ambient.uid
        /\ ambient'.gid = ambient.gid

C17_CredentialsScoped == [][C17_Step]_vars

\* the open of the create fallback failed under the requester's identity and
\* the thread is back to the server's
C17_Witness ==
    /\ last.op = "create"
    /\ last.res = "EACCES"
    /\ last.sys # <<>>
    /\ last.sys[Len(last.sys)] = "open"
    /\ last.ran[Len(last.sys)].uid = "requester"
    /\ ambient.uid = "server"
    /\ ambient.gid = "server"

\* the request of the last call asks for the suid and sgid bits to be killed
Signalled(call) ==
    CASE call.op \in {"open", "create"} -> "KILL_SUIDGID" \in call.fuse_flags
      [] call.op = "write" -> "WRITE_KILL_PRIV" \in call.fuse_flags
      [] call.op = "setattr" -> {"SIZE", "KILL_SUIDGID"} \subseteq call.arg
      [] OTHER -> FALSE

\* C18: in open, the create fallback, write and setattr(size) CAP_FSETID is
\* dropped only when killpriv_v2 was negotiated and the request signals it
\* (KILL_SUIDGID on open and create, WRITE_KILL_PRIV, KILL_SUIDGID in
\* setattr), only around the triggering syscall, and at return, on success
\* and on error, the capability set is what it was before the call.
C18_Step ==
    last'.op \in {"open", "create", "write", "setattr"} =>
        /\ \A k \in 1..Len(last'.sys) :
              "CAP_FSETID" \notin last'.ran[k].caps
              => /\ sess.killpriv_v2
                 /\ Signalled(last')
                 /\ last'.sys[k] \in {"drop_cap_fsetid", "set_creds", "open",
                                      "pwritev", "ftruncate"}
        /\ ambient'.caps = ambient.caps

C18_CapabilityScoped == [][C18_Step]_vars

\* a setattr truncated the file without the capability and set the time
\* with it
C18_Witness ==
    /\ last.op = "setattr"
    /\ last.res = "ok"
    /\ \E k \in 1..Len(last.sys) :
          /\ last.sys[k] = "ftruncate"
          /\ "CAP_FSETID" \notin last.ran[k].caps
    /\ \E k \in 1..Len(last.sys) :
          /\ last.sys[k] \in {"futimens", "utimensat"}
          /\ "CAP_FSETID" \in last.ran[k].caps
    /\ "CAP_FSETID" \in ambient.caps

\* the last call named an object of the Object Table and, if it named a
\* handle, one that is registered for that object
WellFormed(call) ==
    /\ call.inode \in DOMAIN inode_map
    /\ call.handle # 0 =>
          /\ call.handle \in DOMAIN handle_map
          /\ handle_map[call.handle].inode = call.inode

\* C19: with size sealing active a setattr with SIZE in `valid` (on a known
\* object and, if it names a handle, a registered one) fails with EPERM and
\* applies none of its sub-mutations: no syscall changes the mode, the
\* ownership, the size or the timestamps, whatever other bits are set, and
\* no capability is dropped.
C19_Step ==
    (/\ last'.op = "setattr"
     /\ sess.seal_size
     /\ "SIZE" \in last'.arg)
    => /\ last'.res # "ok"
       /\ WellFormed(last') => last'.res = "EPERM"
       /\ last'.sys = <<>>
       /\ ambient' = ambient
       /\ UNCHANGED <<inode_map, next_inode, handle_map, next_handle, dirents,
                      ftype, sess>>

C19_SealedSetattrChangesNothing == [][C19_Step]_vars

\* a sealed setattr that also asked for mode, owner and time was refused
C19_Witness ==
    /\ sess.seal_size
    /\ sess.killpriv_v2
    /\ last.op = "setattr"
    /\ last.arg = {"MODE", "UID", "SIZE", "MTIME", "KILL_SUIDGID"}
    /\ WellFormed(last)
    /\ last.handle # 0
    /\ last.res = "EPERM"

\* the request of the last call could change the size of the file: it ends
\* past the end of the file, or it collapses a range
CouldResize(call) ==
    \/ call.geo.offset + call.geo.size > call.geo.st_size
    \/ call.op = "fallocate" /\ call.geo.mode = "collapse"

\* C20: with size sealing active every write and fallocate that could change
\* the size of the file is rejected (with EPERM when it names a registered
\* handle) before the write or fallocate syscall and before any capability
\* drop: the handler makes no syscall that changes the size or the mode.
C20_Step ==
    (/\ last'.op \in {"write", "fallocate"}
     /\ sess.seal_size
     /\ CouldResize(last'))
    => /\ last'.res # "ok"
       /\ WellFormed(last') => last'.res = "EPERM"
       /\ \A k \in 1..Len(last'.sys) :
             /\ last'.sys[k] \in {"open", "fcntl", "fstat", "close"}
             /\ "CAP_FSETID" \in last'.ran[k].caps
       /\ ambient' = ambient

C20_SealedWriteRejectedFirst == [][C20_Step]_vars

\* a write past the end of the file that asked for the suid bits to be killed
\* was refused in a session with killpriv_v2 and size sealing
C20_Witness ==
    /\ sess.seal_size
    /\ sess.killpriv_v2
    /\ last.op = "write"
    /\ "WRITE_KILL_PRIV" \in last.fuse_flags
    /\ last.geo.offset + last.geo.size > last.geo.st_size
    /\ WellFormed(last)
    /\ last.res = "EPERM"
    /\ last.sys = <<"fstat", "close">>

(***************************************************************************)
(* Attributes: one file whose mode, owner, size and times are changed by   *)
(* setattr, write and fallocate, in sessions with and without              *)
(* HANDLE_KILLPRIV_V2 and size sealing.                                    *)
(***************************************************************************)

\* a setattr request carries set-id bits, another owner, another time, and a
\* size below or above that of the file
NextAttr ==
    \/ Lookup(ROOT_ID, NameA, FALSE)
    \/ handle_map = <<>> /\ Open(2, {"O_RDWR"}, {}, "none")
    \/ \E h \in {0, 1},
          v \in {{"MODE"}, {"SIZE", "KILL_SUIDGID"}, {"UID", "ATIME"},
                 {"MODE", "UID", "SIZE", "MTIME"}},
          f \in {"none", "chmod", "chown", "truncate", "utimens"} :
          Setattr(2, [NewAttr EXCEPT !.sugid = TRUE, !.owner = 1, !.mtime = 1,
                                     !.size = IF "MODE" \in v THEN 1 ELSE 3],
                  h, v, f)
    \/ \E o \in {0, 2}, f \in {"none", "io"} :
          Fallocate(2, 1, [NoRange EXCEPT !.offset = o, !.size = 1], f)

SpecAttr == InitPriv /\ [][NextAttr]_vars


\* the rank of a system call of setattr among its four changes: permission
\* bits, ownership, size, timestamps; the closing do_getattr comes fifth
Rank(e) ==
    IF e \in {"fchmod", "fchmodat"} THEN 1
    ELSE IF e = "fchownat" THEN 2
    ELSE IF e \in {"drop_cap_fsetid", "open", "ftruncate"} THEN 3
    ELSE IF e \in {"futimens", "utimensat"} THEN 4
    ELSE 5

\* the changes a setattr request asks for, by rank
Asked(valid) ==
    {c \in 1..4 : \/ c = 1 /\ "MODE" \in valid
                  \/ c = 2 /\ valid \cap {"UID", "GID"} # {}
                  \/ c = 3 /\ "SIZE" \in valid
                  \/ c = 4 /\ valid \cap {"ATIME", "MTIME"} # {}}

C21_Step ==
    last'.op = "setattr" =>
        LET sys == last'.sys
            valid == last'.arg
            want == last'.want
            top == IF sys = <<>> THEN 0 ELSE Rank(sys[Len(sys)])
            tried == {Rank(sys[k]) : k \in 1..Len(sys)} \ {5}
            done(c) == c \in Asked(valid) /\ (last'.res = "ok" \/ top = 5 \/ c < top)
            before == AttrOf(fattr, last'.inode, last'.handle)
            after == AttrOf(fattr', last'.inode, last'.handle)
            kill == sess.killpriv_v2 /\ "KILL_SUIDGID" \in valid
            bits1 == IF done(1) THEN want.sugid ELSE before.sugid
            bits2 == bits1 /\ ~done(2)
        IN  /\ \A j, k \in 1..Len(sys) : j < k => Rank(sys[j]) <= Rank(sys[k])
            /\ \A c \in {1, 2, 4} :
                   Cardinality({k \in 1..Len(sys) : Rank(sys[k]) = c}) <= 1
            /\ Cardinality({k \in 1..Len(sys) : sys[k] = "ftruncate"}) <= 1
            /\ last'.res = "ok" => tried = Asked(valid) /\ top = 5
            /\ last'.res # "ok" => tried = {c \in Asked(valid) : c <= top}
            /\ tried # Asked(valid) => last'.res # "ok"
            /\ after.sugid = (bits2 /\ ~(done(3) /\ kill))
            /\ after.owner = IF done(2) /\ "UID" \in valid THEN want.owner
                             ELSE before.owner
            /\ after.size = IF done(3) THEN want.size ELSE before.size
            /\ after.mtime = IF done(4) /\ "MTIME" \in valid THEN want.mtime
                             ELSE before.mtime

\* C21: setattr makes the requested changes in the order permission bits,
\* ownership, size, timestamps; when one of them fails it returns an error,
\* the changes before it stay made on the host file and none after it is
\* attempted
C21_SetattrInOrderNoRollback == [][C21_Step]_vars

\* a setattr of mode, owner, size and time that failed in ftruncate: the
\* owner is changed, the size and the time are not
C21_Witness ==
    /\ last.op = "setattr"
    /\ last.res = "EFBIG"
    /\ last.arg = {"MODE", "UID", "SIZE", "MTIME"}
    /\ last.sys[1] \in {"fchmod", "fchmodat"}
    /\ last.sys[2] = "fchownat"
    /\ \A k \in 1..Len(last.sys) : Rank(last.sys[k]) < 4
    /\ fattr[2].owner = 1
    /\ fattr[2].size = 2
    /\ fattr[2].mtime = 0


C22_Step ==
    sess.killpriv_v2 =>
        /\ (/\ last'.op = "setattr"
            /\ last'.res = "ok"
            /\ {"SIZE", "KILL_SUIDGID"} \subseteq last'.arg)
               => /\ ~last'.attr.sugid
                  /\ last'.attr.size = last'.want.size
                  /\ last'.attr = AttrOf(fattr', last'.inode, last'.handle)
        /\ (/\ last'.op = "fallocate"
            /\ last'.res = "ok"
            /\ last'.geo.offset + last'.geo.size > last'.geo.st_size)
               => /\ \A k \in 1..Len(last'.sys) :
                         last'.sys[k] # "drop_cap_fsetid"
                  /\ \A k \in 1..Len(last'.ran) :
                         "CAP_FSETID" \in last'.ran[k].caps
                  /\ AttrOf(fattr', last'.inode, last'.handle).sugid
                         = last'.was.sugid
                  /\ AttrOf(fattr', last'.inode, last'.handle).size
                         = last'.geo.offset + last'.geo.size

\* C22: once HANDLE_KILLPRIV_V2 is negotiated, a setattr of the size with
\* KILL_SUIDGID replies with the attributes read back from the host, which
\* have the set-id bits cleared and the new size; a fallocate that extends
\* the file never drops CAP_FSETID, keeps the set-id bits as they were and
\* extends the size
C22_TruncateKillsSetIdFallocateKeeps == [][C22_Step]_vars

\* a file with the set-id bits was truncated with KILL_SUIDGID: the reply
\* has the new size and the bits cleared
C22_Witness ==
    /\ sess.killpriv_v2
    /\ last.op = "setattr"
    /\ last.res = "ok"
    /\ last.arg = {"SIZE", "KILL_SUIDGID"}
    /\ last.was.sugid
    /\ last.want.sugid
    /\ ~last.attr.sugid
    /\ last.attr.size = 3
    /\ ~fattr[2].sugid

(***************************************************************************)
(* Identity: entries are created, linked, renamed, resolved and forgotten  *)
(* under two names of the root directory.                                  *)
(***************************************************************************)

NextIdent ==
    \/ \E n \in {NameA, NameB} : Lookup(ROOT_ID, n, FALSE)
    \/ \E n \in {NameA, NameB} : Create(ROOT_ID, n, {}, {}, "none")
    \/ \E i \in {2, 3}, n \in {NameA, NameB} : Link(i, ROOT_ID, n, "none")
    \/ \E n \in {NameA, NameB}, m \in {NameA, NameB} :
          Rename(ROOT_ID, n, ROOT_ID, m, "none")
    \/ \E n \in {NameA, NameB} : Unlink(ROOT_ID, n, "none")
    \/ \E i \in {2, 3} : Forget(i, 1)

\* the root directory of the host is empty at mount
SpecIdent ==
    InitOn(<<>>, <<"dir">>, DefaultSession, FALSE) /\ [][NextIdent]_vars

C23_Step ==
    /\ (/\ last'.op \in {"lookup", "create", "link"}
        /\ last'.res = "ok")
           => /\ last'.inode \in DOMAIN inode_map'
              /\ last'.name \in DOMAIN dirents'
              /\ inode_map'[last'.inode].file = dirents'[last'.name]
    /\ \A i \in DOMAIN inode_map \cap DOMAIN inode_map' :
           inode_map'[i].file = inode_map[i].file
    /\ \A i, j \in DOMAIN inode_map' :
           inode_map'[i].file = inode_map'[j].file => i = j
    /\ (last'.op = "link" /\ last'.res = "ok") => last'.inode = last'.src
    /\ (last'.op = "rename" /\ last'.res = "ok")
           => /\ inode_map' = inode_map
              /\ last'.newname \in DOMAIN dirents'
              /\ dirents'[last'.newname] = dirents[last'.name]

\* C23: an object keeps its ObjectId under every name while it stays in the
\* Object Table: a resolved, created or linked name yields the ObjectId of
\* the host file the name denotes, no two ObjectIds denote one host file, no
\* ObjectId changes its host file, link returns the ObjectId it was given,
\* and rename moves the host file to the new name and leaves the table alone
C23_IdentityStableAcrossNames == [][C23_Step]_vars

\* the object that create returned as ObjectId 2 has lost the name it was
\* created under, and its other name resolves to ObjectId 2
C23_Witness ==
    /\ last.op = "lookup"
    /\ last.res = "ok"
    /\ last.name = NameB
    /\ last.inode = 2
    /\ inode_map[2].file = 2
    /\ NameA \notin DOMAIN dirents
    /\ inode_map[2].refcount > 1


(***************************************************************************)
(* create of a name that exists, in the sessions of SpecPriv.              *)
(***************************************************************************)

C24_Step ==
    (/\ last'.op = "create"
     /\ last'.name \in DOMAIN dirents
     /\ "O_EXCL" \notin last'.arg) =>
        LET file == dirents[last'.name]
            known == {i \in DOMAIN inode_map : inode_map[i].file = file}
            sys == last'.sys
            opens == {k \in 1..Len(sys) : sys[k] = "open"}
            kill == sess.killpriv_v2 /\ "KILL_SUIDGID" \in last'.fuse_flags
        IN  /\ dirents' = dirents
            /\ ftype' = ftype
            /\ last'.res = "ok" =>
                  /\ last'.inode \in DOMAIN inode_map'
                  /\ inode_map'[last'.inode].file = file
                  /\ known # {} => last'.inode \in known
                  /\ inode_map'[last'.inode].refcount =
                         IF known # {}
                         THEN inode_map[last'.inode].refcount + 1 ELSE 1
                  /\ \A i \in DOMAIN inode_map \ {last'.inode} :
                         i \in DOMAIN inode_map' /\ inode_map'[i] = inode_map[i]
                  /\ opens # {}
                  /\ ~sess.no_open =>
                        /\ last'.handle \notin DOMAIN handle_map
                        /\ DOMAIN handle_map' = DOMAIN handle_map \cup {last'.handle}
                        /\ handle_map'[last'.handle].inode = last'.inode
                        /\ handle_map'[last'.handle].file = file
                        /\ \A h \in DOMAIN handle_map :
                               handle_map'[h] = handle_map[h]
            /\ last'.res # "ok" => handle_map' = handle_map
            /\ ~is_safe_inode(ftype[file]) => opens = {} /\ last'.res # "ok"
            /\ \A k \in opens :
                  /\ last'.ran[k].uid = "requester"
                  /\ last'.ran[k].gid = "requester"
                  /\ "CAP_FSETID" \notin last'.ran[k].caps <=> kill
            /\ ambient' = ambient

\* C24: create of a name that exists, without O_EXCL, creates nothing and
\* succeeds by resolving and opening the entry: it returns the ObjectId the
\* host file already has, with the refcount one higher, and a new handle
\* bound to it; the open goes through the node-type gate, under the
\* requester's uid and gid, and without CAP_FSETID exactly when
\* KILL_SUIDGID is signalled and HANDLE_KILLPRIV_V2 negotiated
C24_CreateOfExistingResolvesAndOpens == [][C24_Step]_vars

\* create of the existing entry "a", already resolved as ObjectId 2, with
\* KILL_SUIDGID in a session that negotiated the option
C24_Witness ==
    /\ last.op = "create"
    /\ last.res = "ok"
    /\ last.name = NameA
    /\ last.inode = 2
    /\ "KILL_SUIDGID" \in last.fuse_flags
    /\ sess.killpriv_v2
    /\ inode_map[2].refcount = 2
    /\ last.handle \in DOMAIN handle_map
    /\ handle_map[last.handle].inode = 2
    /\ Len(ftype) = 2
    /\ \E k \in 1..Len(last.sys) :
          last.sys[k] = "open" /\ "CAP_FSETID" \notin last.ran[k].caps


(***************************************************************************)
(* Short buffers: the root directory is listed from its start with a       *)
(* buffer below and above the size of its first record, then synced,       *)
(* released, and a directory made in it is removed.                        *)
(***************************************************************************)

NextShort ==
    \/ \E f \in {"none", "sys"} : Mkdir(ROOT_ID, NameB, f)
    \/ \E f \in {"none", "open"} : handle_map = <<>> /\ Opendir(ROOT_ID, {}, f)
    \/ \E h \in Handles, sz \in {0, 10, 72} :
          Readdir(ROOT_ID, h, sz, 0, [at |-> 0, what |-> "ok"], "none")
    \/ \E h \in Handles, sz \in {0, 10, 72} :
          Readdirplus(ROOT_ID, h, sz, 0, [at |-> 0, what |-> "ok"], "none")
    \/ \E h \in Handles : Fsync(ROOT_ID, h, "none")
    \/ \E h \in Handles : Releasedir(ROOT_ID, h)
    \/ \E n \in {NameA, NameB} : Rmdir(ROOT_ID, n, "none")

SpecShort == InitResolve /\ [][NextShort]_vars

\* a listing from the start of the root directory whose buffer cannot take
\* the first record, on a registered handle
TooSmall(call) ==
    /\ call.op \in {"readdir", "readdirplus"}
    /\ call.arg > 0
    /\ call.arg < DirStream(dirents, ftype, RootFile)[1].d_reclen
    /\ HandleGet(handle_map, call.handle, call.inode).err = "ok"

C25_Step ==
    /\ TooSmall(last') =>
          /\ last'.res # "ok"
          /\ last'.offered = <<>>
          /\ UNCHANGED <<inode_map, next_inode, handle_map, next_handle,
                         dirents, ftype, sess, issued, fdstate>>
    /\ (TooSmall(last) /\ last.res # "ok") =>
          /\ (/\ last'.op = "fsync"
              /\ last'.handle = last.handle
              /\ last'.inode = last.inode) => last'.res = "ok"
          /\ (/\ last'.op = "releasedir"
              /\ last'.handle = last.handle
              /\ last'.inode = last.inode)
                 => /\ last'.res = "ok"
                    /\ last.handle \notin DOMAIN handle_map'
          /\ (/\ last'.op = "rmdir"
              /\ last'.name \in DOMAIN dirents
              /\ ftype[dirents[last'.name]] = "dir")
                 => /\ last'.res = "ok"
                    /\ last'.name \notin DOMAIN dirents'

\* C25: a readdir or readdirplus whose buffer is too small for one record
\* fails, offers nothing to the sink and changes neither the Object Table
\* nor the Handle Table; an fsyncdir or a releasedir of the handle that
\* follows it succeeds, and so does an rmdir of a directory
C25_ShortBufferFailsHandleUsable == [][C25_Step]_vars

\* a listing with a buffer of ten bytes has failed on the handle of the
\* root directory, in which a directory was made
C25_Witness ==
    /\ last.op \in {"readdir", "readdirplus"}
    /\ last.arg = 10
    /\ last.res = "EINVAL"
    /\ last.offered = <<>>
    /\ last.handle \in DOMAIN handle_map
    /\ NameB \in DOMAIN dirents
    /\ ftype[dirents[NameB]] = "dir"

(***************************************************************************)
(* destroy, in the sessions of SpecHandle.                                 *)
(***************************************************************************)

\* the call uses an ObjectId or a HandleId that was returned before and is
\* in its table no more
Stale ==
    /\ last'.op \in HandleOps \cup {"open", "opendir"}
    /\ \/ /\ last'.inode \notin DOMAIN inode_map
          /\ last'.inode \in (ROOT_ID + 1)..(next_inode - 1)
       \/ /\ last'.op \in HandleOps
          /\ last'.handle \in issued
          /\ last'.handle \notin DOMAIN handle_map

Destroyed ==
    last'.op = "destroy" =>
        /\ handle_map' = <<>>
        /\ DOMAIN inode_map' = {ROOT_ID}
        /\ next_handle' = next_handle
        /\ issued' = issued

FreshHandle ==
    (last'.op \in Opens /\ last'.res = "ok" /\ last'.handle # 0)
        => last'.handle \notin issued

NextCache ==
    \/ \E n \in {NameA, NameB} : Lookup(ROOT_ID, n, FALSE)
    \/ \E i \in {ROOT_ID, 2}, fl \in {{"O_RDONLY"}, {"O_RDONLY", "O_DIRECTORY"}} :
          Open(i, fl, {}, "none")
    \/ \E i \in {ROOT_ID, 2} : Opendir(i, {}, "none")
    \/ \E n \in {NameA, NameB} : Create(ROOT_ID, n, {}, {}, "none")
    \/ \E h \in Handles : Release(2, h)

SpecCache ==
    /\ \E c \in {"never", "metadata", "always"} :
          InitOn((NameA :> 2), <<"dir", "reg">>,
                 [DefaultSession EXCEPT !.cache_policy = c], FALSE)
    /\ [][NextCache]_vars

C27_Step ==
    (last'.op \in Opens /\ last'.res = "ok") =>
        LET dir == \/ last'.op = "opendir"
                   \/ last'.op = "open" /\ "O_DIRECTORY" \in last'.arg
            p == sess.cache_policy
        IN  /\ p = "never" => last'.opts = IF dir THEN {} ELSE {"DIRECT_IO"}
            /\ p = "metadata" =>
                  last'.opts = IF dir THEN {"CACHE_DIR", "KEEP_CACHE"}
                               ELSE {"DIRECT_IO"}
            /\ p = "always" =>
                  last'.opts = IF dir THEN {"KEEP_CACHE", "CACHE_DIR"}
                               ELSE {"KEEP_CACHE"}

\* C27: the options in the reply of open, opendir and create depend only on
\* the cache policy and on whether a directory is opened: never gives
\* DIRECT_IO for a file and nothing for a directory, metadata gives
\* DIRECT_IO for a file and CACHE_DIR with KEEP_CACHE for a directory,
\* always gives KEEP_CACHE and for a directory CACHE_DIR too; create replies
\* as an open of a file does
C27_ReplyOptionsByPolicy == [][C27_Step]_vars

\* a directory was opened under the metadata policy
C27_Witness ==
    /\ last.op = "opendir"
    /\ last.res = "ok"
    /\ sess.cache_policy = "metadata"
    /\ last.opts = {"CACHE_DIR", "KEEP_CACHE"}
    /\ last.handle \in DOMAIN handle_map


(***************************************************************************)
(* Access: a file is given permission bits, an owner and a group, and      *)
(* requesters probe it.                                                    *)
(***************************************************************************)

\* permission bits 0, 0o001, 0o010, 0o060, 0o204, 0o400, 0o644, 0o755
NextAccess ==
    \/ Lookup(ROOT_ID, NameA, FALSE)
    \/ \E m \in {0, 1, 8, 48, 132, 256, 420, 493}, u \in {0, 1}, g \in {0, 1} :
          Setattr(2, [OldAttr EXCEPT !.perm = m, !.owner = u, !.gid = g], 0,
                  {"MODE", "UID", "GID"}, "none")
    \/ \E i \in {2, 3}, u \in 0..2, g \in 0..1, mask \in 0..8 :
          Access(i, [uid |-> u, gid |-> g], mask)

SpecAccess ==
    /\ InitOn((NameA :> 2), <<"dir", "reg">>, DefaultSession, FALSE)
    /\ [][NextAccess]_vars

\* the permission `bit` (4 read, 2 write, 1 execute) is granted to `ctx` on
\* a file with attributes `st`
Granted(st, ctx, bit) ==
    \/ ctx.uid = 0 /\ bit \in {4, 2}
    \/ ctx.uid = 0 /\ bit = 1
          /\ \E b \in {64, 8, 1} : Has(st.perm, b)
    \/ st.owner = ctx.uid /\ Has(st.perm, 64 * bit)
    \/ st.gid = ctx.gid /\ Has(st.perm, 8 * bit)
    \/ Has(st.perm, bit)

C28_Step ==
    (last'.op = "access" /\ last'.inode \in DOMAIN inode_map) =>
        LET st == AttrOf(fattr, last'.inode, 0)
            asked == {b \in {4, 2, 1} : Has(last'.mask, b)}
        IN  /\ asked = {} => last'.res = "ok"
            /\ asked # {} =>
                  /\ last'.res \in {"ok", "EACCES"}
                  /\ last'.res = "EACCES"
                        <=> \E b \in asked : ~Granted(st, last'.ctx, b)

\* C28: access succeeds when the mask asks for none of read, write and
\* execute; else it fails with EACCES iff some permission asked for is
\* granted neither by the owner bit to the owner, nor by the group bit to a
\* requester of the file's group, nor by the bit for others; uid 0 is always
\* granted read and write, and execute iff some execute bit is set
C28_AccessPolicy == [][C28_Step]_vars

\* the owner of a file with bits 0o644 asked for read, write and execute
\* and was denied
C28_Witness ==
    /\ last.op = "access"
    /\ last.res = "EACCES"
    /\ last.mask = 7
    /\ last.inode = 2
    /\ fattr[2].perm = 420
    /\ fattr[2].owner = 1
    /\ last.ctx.uid = 1


(***************************************************************************)
(* Sessions: the file system is mounted, unmounted and mounted again with  *)
(* other capabilities, under a configuration that asks for every option    *)
(* and under one that honours what was negotiated above it.                *)
(***************************************************************************)

\* the session flag that each option of the reply stands for
FlagOf ==
    [WRITEBACK_CACHE |-> "writeback", ZERO_MESSAGE_OPEN |-> "no_open",
     ZERO_MESSAGE_OPENDIR |-> "no_opendir", HANDLE_KILLPRIV_V2 |-> "killpriv_v2"]

NextSession ==
    \/ \E cap \in SUBSET {"WRITEBACK_CACHE", "ZERO_MESSAGE_OPEN",
                          "HANDLE_KILLPRIV_V2", "PERFILE_DAX"} : FsInit(cap)
    \/ Destroy
    \/ Lookup(ROOT_ID, NameA, FALSE)
    \/ handle_map = <<>> /\ Open(2, {"O_RDWR"}, {}, "none")
    \/ \E h \in 0..1 : Release(2, h)
    \/ \E h \in 0..1, fl \in {{"O_RDWR"}, {"O_RDWR", "O_NONBLOCK"}},
          f \in {"none", "fcntl", "io"} : Read(2, h, fl, f)
    \/ \E h \in 0..1, fl \in {{"O_RDWR"}, {"O_RDWR", "O_NONBLOCK"}},
          ff \in {{}, {"WRITE_KILL_PRIV"}}, f \in {"none", "fcntl"} :
          Write(2, h, fl, ff, [NoRange EXCEPT !.size = 1], f)
    \/ Forget(2, 1)

SpecSession ==
    /\ \E imp \in BOOLEAN :
          InitOn((NameA :> 2), <<"dir", "reg">>,
                 [DefaultSession EXCEPT
                    !.cfg = [DefaultConfig EXCEPT
                               !.do_import = imp, !.writeback = TRUE,
                               !.no_open = TRUE, !.killpriv_v2 = TRUE]],
                 FALSE)
    /\ [][NextSession]_vars

C29_Step ==
    /\ last'.op = "init" =>
          \A o \in DOMAIN FlagOf : sess'[FlagOf[o]] <=> o \in last'.opts
    /\ last'.op = "destroy" =>
          \A o \in DOMAIN FlagOf : sess'[FlagOf[o]] = sess[FlagOf[o]]
    /\ last'.op \notin {"init", "destroy"} =>
          \A f \in {"no_open", "no_opendir", "killpriv_v2"} : sess'[f] = sess[f]

\* C29: after an init each of writeback, no_open, no_opendir and killpriv_v2
\* is true iff its option is in that init's reply, destroy keeps the four
\* flags, and no other operation changes no_open, no_opendir or killpriv_v2:
\* so the flags always tell the reply of the most recent init
C29_FlagsFollowLatestReply == [][C29_Step]_vars

\* the positions of the event `e` in a trace of system calls
At(sys, e) == {k \in 1..Len(sys) : sys[k] = e}

C30_Step ==
    (/\ last'.op \in {"read", "write"}
     /\ ~sess.no_open
     /\ last'.handle \in DOMAIN handle_map
     /\ handle_map[last'.handle].inode = last'.inode) =>
        LET h == last'.handle
            sys == last'.sys
            set == At(sys, "fcntl")
            io == At(sys, "preadv") \cup At(sys, "pwritev")
            \* fcntl failed: nothing but the drop of the File follows it
            refused == /\ last'.res # "ok"
                       /\ \E k \in set : \A j \in (k + 1)..Len(sys) :
                                            sys[j] = "close"
        IN  /\ set # {} <=> handle_map[h].flags # last'.arg
            /\ Cardinality(set) <= 1
            /\ \A k \in set, j \in io : k < j
            /\ h \in DOMAIN handle_map'
            /\ handle_map'[h].flags =
                  IF refused THEN handle_map[h].flags ELSE last'.arg
            /\ refused => io = {}
            /\ (set # {} /\ last'.res = "ok") => io # {}

\* C30: read and write set the descriptor's flags iff the request's flags
\* differ from those recorded in the HandleRecord, and before the I/O; when
\* the call succeeds the record holds the request's flags, so the same
\* request again sets nothing; when it fails the error is returned, the
\* record is unchanged and no I/O is done
C30_FlagsReconciledBeforeIo == [][C30_Step]_vars

\* a read with flags other than those of the open found them recorded by the
\* request before it and set nothing
C30_Witness ==
    /\ last.op = "read"
    /\ last.res = "ok"
    /\ last.arg = {"O_RDWR", "O_NONBLOCK"}
    /\ last.handle \in DOMAIN handle_map
    /\ handle_map[last.handle].flags = last.arg
    /\ At(last.sys, "fcntl") = {}
    /\ At(last.sys, "preadv") # {}

(***************************************************************************)
(* Claims on the entries that readdir and readdirplus deliver, checked in  *)
(* the enumeration specification.                                          *)
(***************************************************************************)
\* the raw record of the listed directory that an offered entry came from
RawOf(d, ft, file, e) ==
    {r \in {DirStream(d, ft, file)[k] : k \in 1..Len(DirStream(d, ft, file))} :
        HasNul(r.name) /\ bytes_to_cstr(r.name) = e.name}

C31_Step ==
    last'.op \in {"readdir", "readdirplus"} =>
        \A k \in 1..Len(last'.offered) :
            LET e == last'.offered[k]
            IN  e.sink # "lkerr" =>
                  /\ e.ino = e.inode
                  /\ \E r \in RawOf(dirents, ftype, RootFile, e) :
                        e.offset = r.d_off /\ e.type_ = r.d_ty

\* C31: in readdir and in readdirplus every entry handed to the caller's
\* sink carries as its identity the ObjectId that the resolve step returned
\* for its name in this call, and the cookie and type of its raw record
C31_ReportedIdentityIsObjectId == [][C31_Step]_vars


C33_Step ==
    last'.op = "readdirplus" =>
        \A i \in Inodes :
            RefIn(inode_map', i)
              = RefIn(inode_map, i) + CountOffered(last'.offered, i, {"ok"})

\* C33: readdirplus keeps a reference only for the entries the caller
\* received: after the call every object holds as many more references as
\* entries of it the sink accepted, so an entry for which the sink returned
\* an error or 0 has the refcount it had before the call
C33_ReferenceOnlyForReceived == [][C33_Step]_vars

C34_Step ==
    (last'.op = "create" /\ last'.res # "ok") =>
        /\ \A i \in Inodes : RefIn(inode_map', i) = RefIn(inode_map, i)
        /\ handle_map' = handle_map

\* C34: a create that returns an error leaves the lookup refcount of every
\* object and the Handle Table as they were before the call, also when the
\* name exists and the open of the existing object fails
C34_FailedCreateChangesNothing == [][C34_Step]_vars

(***************************************************************************)
(* Hidden names: the root directory holds .a, ..a and a, and is listed     *)
(* from every cookie with replies of several sizes.                        *)
(***************************************************************************)
NextDots ==
    \/ Lookup(ROOT_ID, DotA, FALSE)
    \/ handle_map = <<>> /\ Opendir(ROOT_ID, {}, "none")
    \/ \E p \in BOOLEAN, sz \in {48, 136}, o \in {0, 1, 3},
          sc \in {[at |-> 0, what |-> "ok"], [at |-> 2, what |-> "full"],
                  [at |-> 1, what |-> "err"]} :
          ReaddirCall(p, ROOT_ID, 1, sz, o, sc, "none")
            /\ UNCHANGED <<listing, workers, fdstate, ambient, fattr>>
    \/ Forget(2, 1)

SpecDots ==
    /\ InitOn((DotA :> 2) @@ (DotDotA :> 3) @@ (NameA :> 2),
              <<"dir", "reg", "reg">>, DefaultSession, FALSE)
    /\ [][NextDots]_vars

\* the name of a raw record without its padding is "." or ".."
IsDot(r) == \E n \in {DotName, DotDotName} : r.name = PadName(n)

C32_Step ==
    (last'.op \in {"readdir", "readdirplus"} /\ last'.nbuf > 0) =>
        LET stream == DirStream(dirents, ftype, RootFile)
            pos == last'.geo.offset
            off == last'.offered
            \* the records of the raw buffer, as positions of the stream
            buf == (pos + 1)..(pos + last'.nbuf)
            plain == {k \in buf : ~IsDot(stream[k])}
            \* the sink ended the enumeration at the last entry offered
            ended == off # <<>> /\ off[Len(off)].sink # "ok"
            upto == IF ended THEN off[Len(off)].offset ELSE pos + last'.nbuf
        IN  /\ \A k \in 1..Len(off) :
                  /\ off[k].name \notin {DotName, DotDotName}
                  /\ off[k].offset \in plain
                  /\ off[k].name \o Repeat(NUL, Len(stream[off[k].offset].name)
                                                 - Len(off[k].name))
                        = stream[off[k].offset].name
                  /\ \A j \in 1..Len(off[k].name) : off[k].name[j] # NUL
                  /\ \A j \in 1..(k - 1) : off[j].offset < off[k].offset
            /\ {off[k].offset : k \in 1..Len(off)}
                  = {k \in plain : k <= upto}

\* C32: do_readdir offers no record named "." or ".." to the sink; after
\* such a record the records that follow in the buffer are still offered;
\* every other record, also one whose name begins with "." or "..", is
\* offered once, in order, with its name cut at the padding
C32_DotRecordsSkippedOthersTrimmed == [][C32_Step]_vars

\* a reply that began with "." and ".." and then delivered .a, a and ..a
C32_Witness ==
    /\ last.op = "readdir"
    /\ last.geo.offset = 0
    /\ last.nbuf = 5
    /\ Len(last.offered) = 3
    /\ last.offered[1].name = DotA
    /\ last.offered[3].name = DotDotA


(***************************************************************************)
(* Claims on the descriptor of a HandleRecord, checked in the session      *)
(* specification.                                                          *)
(***************************************************************************)
C35_Step ==
    /\ \A h \in DOMAIN handle_map' : ~fdstate'[h].dropped
    /\ (last'.op \in {"read", "write"} /\ last'.res # "ok"
          /\ ~sess.no_open /\ last'.handle \in DOMAIN handle_map
          /\ handle_map[last'.handle].inode = last'.inode) =>
            /\ last'.handle \in DOMAIN handle_map'
            /\ At(last'.sys, "close") = {}

\* C35: the descriptor of a HandleRecord is closed only when the record is
\* destroyed: no registered handle has had its descriptor closed, and a read
\* or write that fails leaves its handle registered and closes nothing
C35_DescriptorClosedOnlyByRelease == [][C35_Step]_vars

(***************************************************************************)
(* The shared-handle specification: threads read, write and seek on one    *)
(* file handle with differing flags while release and destroy run.         *)
(***************************************************************************)
FlagsA == {"O_RDWR"}
FlagsB == {"O_RDWR", "O_NONBLOCK"}

NextShare ==
    \/ next_inode = 2 /\ Lookup(ROOT_ID, NameA, FALSE)
    \/ next_inode = 3 /\ next_handle = 1 /\ Open(2, FlagsA, {}, "none")
    \/ \E w \in Workers, op \in {"read", "write"}, fl \in {FlagsA, FlagsB} :
          next_handle = 2 /\ CfStart(w, op, 2, 1, fl)
    \/ \E w \in Workers : CfGet(w)
    \/ \E w \in Workers, fail \in BOOLEAN : CfFcntl(w, fail)
    \/ \E w \in Workers : CfSet(w)
    \/ \E w \in Workers : CfIo(w)
    \/ \E w \in Workers : next_handle = 2 /\ LsStart(w, 2, 1, 1)
    \/ \E w \in Workers : LsLock(w)
    \/ \E w \in Workers : LsSeek(w)
    \/ \E w \in Workers : Return(w)
    \/ next_handle = 2 /\ Release(2, 1)
    \/ next_handle = 2 /\ handle_map # << >> /\ Destroy

SpecShare ==
    /\ InitOn((NameA :> 2), <<"dir", "reg">>, DefaultSession, FALSE)
    /\ [][NextShare]_vars

\* a call that obtained a HandleData and has not produced its result yet
InFlight(w) == workers[w].arc # 0 /\ workers[w].pc \notin {"idle", "done"}

C36_Step ==
    \A w \in Workers :
       /\ (/\ workers[w].pc = "idle"
           /\ workers'[w].pc # "idle"
           /\ workers'[w].handle \notin DOMAIN handle_map)
          => (workers'[w].pc = "done" /\ workers'[w].res = "EBADF")
       /\ (InFlight(w)' /\ workers'[w].arc \notin DOMAIN handle_map')
          => (/\ ~fdstate'[workers'[w].arc].closed
              /\ ~fdstate'[workers'[w].arc].dropped)

\* C36: when release, releasedir or destroy runs while calls on the handle
\* are in flight, the descriptor of the HandleData stays open until every
\* call that obtained it has finished, and a call that starts once the
\* handle left the table fails with EBADF.
C36_InFlightKeepsDescriptorOpen == [][C36_Step]_vars

\* C37: whenever no read or write on a registered handle is in progress and
\* F_SETFL was applied to its descriptor, the flags the HandleData records
\* are the flags F_SETFL applied last.
C37_RecordedFlagsMatchDescriptor ==
    \A h \in DOMAIN handle_map :
        (/\ \A w \in Workers : ~(InFlight(w) /\ workers[w].arc = h)
         /\ fdstate[h].applied # {"unset"})
        => handle_map[h].flags = fdstate[h].applied

(***************************************************************************)
(* The lock specification: which locks each handler takes and gives back,  *)
(* in the order of its code, and where its syscalls and the sink run in    *)
(* between.  An instruction is <<"lock", l>>, <<"unlock", l>> or            *)
(* <<"run", what>>; l is "inode_map" (the Object Table), "handle_map" (the *)
(* Handle Table) or "file" (the Mutex of the handle's HandleData).  The    *)
(* table locks are taken as exclusive, which is the most a RwLock blocks.  *)
(***************************************************************************)
TableLocks == {"inode_map", "handle_map"}

\* do_lookup: the parent is fetched from the Object Table, the entry is
\* opened and stat'ed, the object is registered or its count raised
do_lookup_locks ==
    << <<"lock", "inode_map">>, <<"unlock", "inode_map">>, <<"run", "resolve">>,
       <<"lock", "inode_map">>, <<"unlock", "inode_map">> >>

\* readdir and readdirplus with the guard of get_file_mut() kept across the
\* loop over the entries
ReaddirLocks_unlock_late(plus, full) ==
    << <<"lock", "handle_map">>, <<"unlock", "handle_map">>,
       <<"lock", "file">>, <<"run", "getdents64">> >>
    \o do_lookup_locks
    \o (IF plus
        THEN << <<"run", "sink">> >>
             \o (IF full
                 THEN << <<"lock", "inode_map">>, <<"run", "forget_one">>,
                         <<"unlock", "inode_map">> >>
                 ELSE << >>)
        ELSE << <<"lock", "inode_map">>, <<"run", "forget_one">>,
                <<"unlock", "inode_map">>, <<"run", "sink">> >>)
    \o << <<"unlock", "file">> >>

\* readdir and readdirplus on one entry: get_dirdata (line 276), the
\* reposition with the bulk read under the guard (lines 80-107), then per
\* entry the resolve step and, in readdir, forget_one under the table lock
\* before the sink (lines 474-480), in readdirplus the sink and forget_one
\* under the table lock when the sink took nothing (lines 510-516)
ReaddirLocks(plus, full) ==
    << <<"lock", "handle_map">>, <<"unlock", "handle_map">>,
       <<"lock", "file">>, <<"run", "getdents64">>,
       <<"unlock", "file">> >>
    \o do_lookup_locks
    \o (IF plus
        THEN << <<"run", "sink">> >>
             \o (IF full
                 THEN << <<"lock", "inode_map">>, <<"run", "forget_one">>,
                         <<"unlock", "inode_map">> >>
                 ELSE << >>)
        ELSE << <<"lock", "inode_map">>, <<"run", "forget_one">>,
                <<"unlock", "inode_map">>, <<"run", "sink">> >>)

\* the instructions of a handler
HandlerLocks(op, plus, full) ==
    CASE op = "readdir" -> ReaddirLocks(plus, full)
      [] op = "lseek" ->
            << <<"lock", "handle_map">>, <<"unlock", "handle_map">>,
               <<"lock", "file">>, <<"run", "lseek">>, <<"unlock", "file">> >>
      [] op = "lookup" -> do_lookup_locks
      [] op \in {"forget", "batch_forget"} ->
            << <<"lock", "inode_map">>, <<"run", "forget_one">>,
               <<"unlock", "inode_map">> >>
      [] op = "open" ->
            << <<"lock", "inode_map">>, <<"unlock", "inode_map">>,
               <<"run", "open">>,
               <<"lock", "handle_map">>, <<"unlock", "handle_map">> >>
      [] op = "release" ->
            << <<"lock", "handle_map">>, <<"unlock", "handle_map">> >>

LockOps == {"readdir", "lseek", "lookup", "forget", "batch_forget", "open",
            "release"}

\* the first idle worker picks up a request; readdir and lseek go to the
\* directory handle
LkStart(w, op, plus, full) ==
    /\ workers[w].pc = "idle"
    /\ \A v \in 1..(w - 1) : workers[v].pc # "idle"
    /\ workers' = [workers EXCEPT ![w] =
                      [Idle EXCEPT !.pc = "locks", !.op = op, !.plus = plus,
                                   !.script = [at |-> 1,
                                               what |-> IF full THEN "full"
                                                        ELSE "ok"],
                                   !.handle = 1, !.step = 1]]
    /\ UNCHANGED <<Quiet, Tables, handle_map, last, fdstate>>

\* the instruction worker w is at
Doing(w) ==
    HandlerLocks(workers[w].op, workers[w].plus,
                 workers[w].script.what = "full")[workers[w].step]

\* worker w executes its instruction; a lock is taken when nobody holds it
LkStep(w) ==
    /\ workers[w].pc = "locks"
    /\ LET prog == HandlerLocks(workers[w].op, workers[w].plus,
                                workers[w].script.what = "full")
           ins == Doing(w)
           h == workers[w].handle
           on == IF workers[w].step = Len(prog)
                 THEN [Idle EXCEPT !.pc = "done"]
                 ELSE [workers[w] EXCEPT !.step = @ + 1]
       IN  CASE ins = <<"lock", "file">> ->
                   /\ fdstate[h].lock = 0
                   /\ fdstate' = [fdstate EXCEPT ![h].lock = w]
                   /\ workers' = [workers EXCEPT ![w] = on]
             [] ins = <<"unlock", "file">> ->
                   /\ fdstate' = Unlocked(w, h)
                   /\ workers' = [workers EXCEPT ![w] = on]
             [] ins[1] = "lock" /\ ins[2] \in TableLocks ->
                   /\ \A v \in Workers : ins[2] \notin workers[v].holds
                   /\ workers' = [workers EXCEPT
                                     ![w] = [on EXCEPT !.holds = @ \cup {ins[2]}]]
                   /\ UNCHANGED fdstate
             [] ins[1] = "unlock" /\ ins[2] \in TableLocks ->
                   /\ workers' = [workers EXCEPT
                                     ![w] = [on EXCEPT !.holds = @ \ {ins[2]}]]
                   /\ UNCHANGED fdstate
             [] ins[1] = "run" ->
                   /\ workers' = [workers EXCEPT ![w] = on]
                   /\ UNCHANGED fdstate
    /\ UNCHANGED <<Quiet, Tables, handle_map, last>>

NextLock ==
    \/ \E w \in Workers, op \in LockOps, plus \in BOOLEAN, full \in BOOLEAN :
          /\ (op = "readdir" \/ ~plus)
          /\ (plus \/ ~full)
          /\ LkStart(w, op, plus, full)
    \/ \E w \in Workers : LkStep(w)

\* every worker that can execute its instruction eventually does: the
\* syscalls and the sink return, and a free lock is handed to a waiter
SpecLock ==
    /\ InitOn((NameA :> 2), <<"dir", "reg">>, DefaultSession, FALSE)
    /\ [][NextLock]_vars
    /\ \A w \in Workers : WF_vars(LkStep(w))

C38_Step ==
    \A w \in Workers :
        (workers[w].pc = "locks" /\ workers'[w] # workers[w])
        => /\ (Doing(w)[1] = "lock" /\ Doing(w)[2] \in TableLocks)
              => (workers[w].holds = {} /\ ~Holds(w, workers[w].handle))
           /\ Doing(w) \in {<<"run", "sink">>, <<"run", "resolve">>}
              => workers[w].holds = {}

\* C38: a worker takes the Object Table lock or the Handle Table lock only
\* while it holds neither a position lock nor the other table's lock, no
\* table lock is held while the sink or the resolve step runs, and every
\* readdir, readdirplus, lseek, lookup, forget, batch_forget, open and
\* release that started completes: from some point on no worker is inside a
\* handler.
C38_AllComplete ==
    /\ [][C38_Step]_vars
    /\ <>[](\A w \in Workers : workers[w].pc # "locks")

\* one worker waits for the position lock another holds, or holds a table
\* lock while another is inside its repositioned read
C38_Witness ==
    \E w \in Workers, v \in Workers :
        /\ v # w
        /\ Holds(w, 1)
        /\ workers[w].op = "readdir"
        /\ workers[v].pc = "locks"
        /\ \/ Doing(v) = <<"lock", "file">>
           \/ workers[v].holds # {}

====
